---- MODULE Spec2Model ----
(***************************************************************************)
(* Model of 4.2/P1/source/computeStatistics.py: the descriptive-statistics *)
(* engine (parser, merge sort, mean/median/mode, variances, Newton square  *)
(* root, report rows) and the batch driver main(); and of                  *)
(* 6.2/src/reservation: the ReservationService operations on the three     *)
(* JSON collections (hotels, customers, reservations).                     *)
(*                                                                         *)
(* Python values are modelled as pairs <<kind, v>>:                        *)
(*   <<"float", k>>  the float k / Scale (decimal fixed point: every       *)
(*                   arithmetic result is rounded down to 1/Scale, the     *)
(*                   model's counterpart of float rounding),               *)
(*   <<"nan", 0>>    the float NaN (float("nan") is a token float()        *)
(*                   accepts), unordered and unequal to everything,        *)
(*   <<"None", 0>>   Python's None, the "undefined" marker.                *)
(* Text is a sequence of one-character strings.                            *)
(***************************************************************************)
EXTENDS Integers, Sequences, FiniteSets, TLC

VARIABLES input_paths, disk, pc, idx, data, stats, all_sections,
          stderr, stdout, exit_status, results_file, fn,
          hotels, customers, reservations, seed, last

vars == <<input_paths, disk, pc, idx, data, stats, all_sections,
          stderr, stdout, exit_status, results_file, fn,
          hotels, customers, reservations, seed, last>>

(***************************************************************************)
(* Bounds of the model.                                                    *)
(***************************************************************************)
\* decimal digits kept after the point by the fixed-point floats
FracDigits == 2
\* longest sample explored by the pure-function harness (SpecStats)
MaxSample == 4
\* most input file arguments of one run of main
MaxArgs == 2
\* most lexemes (see Lexemes) in all input files of one run together
MaxItems == 3

Scale == 10 ^ FracDigits

(***************************************************************************)
(* Floats.                                                                 *)
(***************************************************************************)
None == <<"None", 0>>
NaN == <<"nan", 0>>
Fl(k) == <<"float", k>>
IsNone(x) == x[1] = "None"
IsNaN(x) == x[1] = "nan"
IsNum(x) == x[1] = "float"

\* float(n) for a Python int n
FromInt(n) == Fl(n * Scale)

FAdd(a, b) == IF IsNum(a) /\ IsNum(b) THEN Fl(a[2] + b[2]) ELSE NaN
FSub(a, b) == IF IsNum(a) /\ IsNum(b) THEN Fl(a[2] - b[2]) ELSE NaN
\* a * b, rounded down to 1/Scale (split so that no intermediate product
\* leaves the 32-bit range of the checker's integers)
FMul(a, b) ==
    IF IsNum(a) /\ IsNum(b)
    THEN Fl((a[2] \div Scale) * b[2] + ((a[2] % Scale) * b[2]) \div Scale)
    ELSE NaN
\* a / b for b # 0, rounded down to 1/Scale
FDiv(a, b) ==
    IF IsNum(a) /\ IsNum(b) THEN Fl((a[2] * Scale) \div b[2]) ELSE NaN
\* Python's comparisons: every comparison with NaN is False
FLe(a, b) == IsNum(a) /\ IsNum(b) /\ a[2] <= b[2]
FLt(a, b) == IsNum(a) /\ IsNum(b) /\ a[2] < b[2]
FEq(a, b) == IsNum(a) /\ IsNum(b) /\ a[2] = b[2]
FAbs(a) == IF IsNum(a) /\ a[2] < 0 THEN Fl(0 - a[2]) ELSE a
FMax(a, b) == IF FLt(a, b) THEN b ELSE a

\* the elements of a Python list
Range(s) == {s[k] : k \in 1..Len(s)}
\* 0-based indexing of a Python list
At(s, k) == s[k + 1]
\* Python slices s[:k] and s[k:]
Take(s, k) == SubSeq(s, 1, k)
Drop(s, k) == SubSeq(s, k + 1, Len(s))

(***************************************************************************)
(* merge / merge_sort                                                      *)
(***************************************************************************)
\* merge without its last loop: what is left of right is dropped
RECURSIVE MergeLoopNoRightTail(_, _, _, _, _)
MergeLoopNoRightTail(left, right, i, j, merged) ==
    IF i < Len(left) /\ j < Len(right)
    THEN IF FLe(At(left, i), At(right, j))
         THEN MergeLoopNoRightTail(left, right, i + 1, j,
                                   Append(merged, At(left, i)))
         ELSE MergeLoopNoRightTail(left, right, i, j + 1,
                                   Append(merged, At(right, j)))
    ELSE merged \o Drop(left, i)

RECURSIVE MergeLoop(_, _, _, _, _)
MergeLoop(left, right, i, j, merged) ==
    IF i < Len(left) /\ j < Len(right)
    THEN IF FLe(At(left, i), At(right, j))
         THEN MergeLoop(left, right, i + 1, j, Append(merged, At(left, i)))
         ELSE MergeLoop(left, right, i, j + 1, Append(merged, At(right, j)))
    ELSE merged \o Drop(left, i) \o Drop(right, j)

merge(left, right) == MergeLoop(left, right, 0, 0, <<>>)

RECURSIVE merge_sort(_)
merge_sort(arr) ==
    LET n == Len(arr)
        mid == n \div 2
    IN  IF n <= 1
        THEN arr
        ELSE merge(merge_sort(Take(arr, mid)), merge_sort(Drop(arr, mid)))

(***************************************************************************)
(* compute_mean / compute_median / compute_mode                            *)
(***************************************************************************)
RECURSIVE SumLoop(_, _, _)
SumLoop(d, k, total) ==
    IF k >= Len(d) THEN total ELSE SumLoop(d, k + 1, FAdd(total, At(d, k)))

\* compute_mean answering 0.0 for no data
compute_mean_zero(d) ==
    LET n == Len(d)
    IN  IF n = 0 THEN Fl(0) ELSE FDiv(SumLoop(d, 0, Fl(0)), FromInt(n))

compute_mean(d) ==
    LET n == Len(d)
    IN  IF n = 0 THEN None ELSE FDiv(SumLoop(d, 0, Fl(0)), FromInt(n))

\* compute_median taking the upper middle element for an even count
compute_median_upper(sorted_data) ==
    LET n == Len(sorted_data)
        mid == n \div 2
    IN  IF n = 0 THEN None ELSE At(sorted_data, mid)

compute_median(sorted_data) ==
    LET n == Len(sorted_data)
        mid == n \div 2
    IN  IF n = 0 THEN None
        ELSE IF n % 2 = 1 THEN At(sorted_data, mid)
        ELSE FDiv(FAdd(At(sorted_data, mid - 1), At(sorted_data, mid)),
                  FromInt(2))

\* The dict freq as its items in insertion order, <<key, count>> each.
\* "x in freq" finds a key equal to x; the NaN floats of a sample are
\* distinct objects unequal to every key, so each gets an entry of its own.
FreqHas(freq, x) == \E k \in 1..Len(freq) : FEq(freq[k][1], x)

FreqIncr(freq, x) ==
    [k \in 1..Len(freq) |->
        IF FEq(freq[k][1], x) THEN <<freq[k][1], freq[k][2] + 1>> ELSE freq[k]]

RECURSIVE FreqLoop(_, _, _)
FreqLoop(d, k, freq) ==
    IF k >= Len(d) THEN freq
    ELSE FreqLoop(d, k + 1,
                  IF FreqHas(freq, At(d, k))
                  THEN FreqIncr(freq, At(d, k))
                  ELSE Append(freq, <<At(d, k), 1>>))

RECURSIVE MaxFreqLoop(_, _, _)
MaxFreqLoop(freq, k, max_freq) ==
    IF k >= Len(freq) THEN max_freq
    ELSE MaxFreqLoop(freq, k + 1,
                     IF At(freq, k)[2] > max_freq THEN At(freq, k)[2]
                     ELSE max_freq)

RECURSIVE CollectModes(_, _, _, _)
CollectModes(freq, k, max_freq, modes) ==
    IF k >= Len(freq) THEN modes
    ELSE CollectModes(freq, k + 1, max_freq,
                      IF At(freq, k)[2] = max_freq
                      THEN Append(modes, At(freq, k)[1])
                      ELSE modes)

\* compute_mode returning the modes in dictionary order, unsorted
compute_mode_unsorted(d) ==
    LET freq == FreqLoop(d, 0, <<>>)
        max_freq == MaxFreqLoop(freq, 0, 0)
    IN  IF Len(d) = 0 THEN <<>>
        ELSE IF max_freq <= 1 THEN <<>>
        ELSE CollectModes(freq, 0, max_freq, <<>>)

\* compute_mode with the no-mode test max_freq < 1
compute_mode_below_one(d) ==
    LET freq == FreqLoop(d, 0, <<>>)
        max_freq == MaxFreqLoop(freq, 0, 0)
    IN  IF Len(d) = 0 THEN <<>>
        ELSE IF max_freq < 1 THEN <<>>
        ELSE merge_sort(CollectModes(freq, 0, max_freq, <<>>))

compute_mode(d) ==
    LET freq == FreqLoop(d, 0, <<>>)
        max_freq == MaxFreqLoop(freq, 0, 0)
    IN  IF Len(d) = 0 THEN <<>>
        ELSE IF max_freq <= 1 THEN <<>>
        ELSE merge_sort(CollectModes(freq, 0, max_freq, <<>>))

(***************************************************************************)
(* variances and sqrt_newton                                               *)
(***************************************************************************)
RECURSIVE SqDevLoop(_, _, _, _)
SqDevLoop(d, k, mean_value, total_sq_dev) ==
    IF k >= Len(d) THEN total_sq_dev
    ELSE LET diff == FSub(At(d, k), mean_value)
         IN  SqDevLoop(d, k + 1, mean_value,
                       FAdd(total_sq_dev, FMul(diff, diff)))

compute_variance_population(d, mean_value) ==
    LET n == Len(d)
    IN  IF n = 0 THEN None
        ELSE FDiv(SqDevLoop(d, 0, mean_value, Fl(0)), FromInt(n))

\* compute_variance_sample that asks for three values instead of two
compute_variance_sample_needs_three(d, mean_value) ==
    LET n == Len(d)
    IN  IF n < 3 THEN None
        ELSE FDiv(SqDevLoop(d, 0, mean_value, Fl(0)), FromInt(n - 1))

compute_variance_sample(d, mean_value) ==
    LET n == Len(d)
    IN  IF n < 2 THEN None
        ELSE FDiv(SqDevLoop(d, 0, mean_value, Fl(0)), FromInt(n - 1))

\* sqrt_newton's defaults: tol=1e-12 is below 1/Scale and rounds to 0
max_iter == 100
tol == Fl(0)
Half == Fl(Scale \div 2)

\* a loop body without the convergence check
NewtonBodyNoConvergenceCheck(value, s) ==
    LET x == FMul(Half, FAdd(s.x, FDiv(value, s.x)))
    IN  [x |-> x, passes |-> s.passes + 1, done |-> FEq(x, Fl(0))]

\* one pass through the body of the for loop; s is the loop state: the
\* guess x, the number of passes made, and whether a break has left the loop
NewtonBody(value, s) ==
    LET prev == s.x
        x == FMul(Half, FAdd(s.x, FDiv(value, s.x)))
        left == FEq(x, Fl(0))
                \/ (~FEq(prev, Fl(0))
                    /\ FLe(FAbs(FSub(x, prev)),
                           FMul(tol, FMax(FromInt(1), FAbs(prev)))))
    IN  [x |-> x, passes |-> s.passes + 1, done |-> left]

\* up to n passes of the loop from state s (halved, to keep the evaluation
\* shallow), none after a break
RECURSIVE NewtonLoop(_, _, _)
NewtonLoop(value, s, n) ==
    IF s.done \/ n = 0 THEN s
    ELSE IF n = 1 THEN NewtonBody(value, s)
    ELSE NewtonLoop(value, NewtonLoop(value, s, n \div 2), n - n \div 2)

sqrt_newton(value) ==
    IF IsNone(value) THEN None
    ELSE IF FLt(value, Fl(0)) THEN None
    ELSE IF FEq(value, Fl(0)) THEN Fl(0)
    ELSE NewtonLoop(value, [x |-> value, passes |-> 0, done |-> FALSE],
                    max_iter).x

\* the number of passes sqrt_newton makes through its loop body
sqrt_newton_passes(value) ==
    IF IsNone(value) \/ FLt(value, Fl(0)) \/ FEq(value, Fl(0)) THEN 0
    ELSE NewtonLoop(value, [x |-> value, passes |-> 0, done |-> FALSE],
                    max_iter).passes

(***************************************************************************)
(* compute_all_statistics                                                  *)
(***************************************************************************)
\* compute_all_statistics that never stores std_pop in the result
compute_all_statistics_no_std_pop(d) ==
    LET mean_value == compute_mean(d)
        var_pop == compute_variance_population(d, mean_value)
        var_sam == compute_variance_sample(d, mean_value)
    IN  [count |-> Len(d), mean |-> mean_value,
         median |-> compute_median(merge_sort(d)), modes |-> compute_mode(d),
         var_pop |-> var_pop, std_pop |-> None, var_sam |-> var_sam,
         std_sam |-> IF ~IsNone(var_sam) THEN sqrt_newton(var_sam) ELSE None]

compute_all_statistics(d) ==
    LET result == [count |-> Len(d), mean |-> None, median |-> None,
                   modes |-> <<>>, var_pop |-> None, std_pop |-> None,
                   var_sam |-> None, std_sam |-> None]
        sorted_data == merge_sort(d)
        mean_value == compute_mean(d)
        median_value == compute_median(sorted_data)
        modes == compute_mode(d)
        var_pop == compute_variance_population(d, mean_value)
        std_pop == IF ~IsNone(var_pop) THEN sqrt_newton(var_pop) ELSE None
        var_sam == compute_variance_sample(d, mean_value)
        std_sam == IF ~IsNone(var_sam) THEN sqrt_newton(var_sam) ELSE None
    IN  IF result.count = 0 THEN result
        ELSE [count |-> result.count, mean |-> mean_value,
              median |-> median_value, modes |-> modes,
              var_pop |-> var_pop, std_pop |-> std_pop,
              var_sam |-> var_sam, std_sam |-> std_sam]

(***************************************************************************)
(* format_number / prepare_mode_string / prepare_rows                      *)
(***************************************************************************)
DigitChar(dg) == <<"0", "1", "2", "3", "4", "5", "6", "7", "8", "9">>[dg + 1]

\* str(n) for a Python int n >= 0
RECURSIVE NatStr(_)
NatStr(n) == IF n < 10 THEN <<DigitChar(n)>>
             ELSE NatStr(n \div 10) \o <<DigitChar(n % 10)>>

IntStr(n) == IF n < 0 THEN <<"-">> \o NatStr(0 - n) ELSE NatStr(n)

\* the w decimal digits of n, zero-padded on the left
RECURSIVE PadStr(_, _)
PadStr(n, w) == IF w = 0 THEN <<>>
                ELSE PadStr(n \div 10, w - 1) \o <<DigitChar(n % 10)>>

Zeros(w) == [k \in 1..w |-> "0"]

\* s.rstrip("0")
RECURSIVE RStripZeros(_)
RStripZeros(s) ==
    IF Len(s) > 0 /\ s[Len(s)] = "0" THEN RStripZeros(Take(s, Len(s) - 1))
    ELSE s

NA == <<"N", "/", "A">>
HashNA == <<"#">> \o NA

\* f"{x:.{decimals}f}" of a float with FracDigits <= decimals fraction
\* digits: the exact decimal expansion, zero-padded to decimals places
FixedStr(x, decimals) ==
    LET a == IF x[2] < 0 THEN 0 - x[2] ELSE x[2]
    IN  (IF x[2] < 0 THEN <<"-">> ELSE <<>>)
        \o NatStr(a \div Scale) \o <<".">>
        \o PadStr(a % Scale, FracDigits) \o Zeros(decimals - FracDigits)

format_number(x, decimals) ==
    IF IsNone(x) THEN NA
    ELSE IF IsNaN(x) THEN <<"n", "a", "n">>
    ELSE IF x[2] % Scale = 0 THEN IntStr(x[2] \div Scale)
    ELSE LET s == RStripZeros(FixedStr(x, decimals))
         IN  IF s[Len(s)] = "." THEN Take(s, Len(s) - 1) ELSE s

\* ", ".join(parts)
RECURSIVE JoinComma(_)
JoinComma(parts) ==
    IF Len(parts) = 0 THEN <<>>
    ELSE IF Len(parts) = 1 THEN parts[1]
    ELSE parts[1] \o <<",", " ">> \o JoinComma(Tail(parts))

\* prepare_mode_string whose list branch also takes the empty list
prepare_mode_string_brackets(count, modes) ==
    IF Len(modes) = 0 /\ count > 0 THEN HashNA
    ELSE IF Len(modes) = 1 THEN format_number(modes[1], 6)
    ELSE <<"[">>
         \o JoinComma([k \in 1..Len(modes) |-> format_number(modes[k], 6)])
         \o <<"]">>

prepare_mode_string(count, modes) ==
    IF Len(modes) = 0 /\ count > 0 THEN HashNA
    ELSE IF Len(modes) = 1 THEN format_number(modes[1], 6)
    ELSE IF Len(modes) > 1
         THEN <<"[">>
              \o JoinComma([k \in 1..Len(modes) |-> format_number(modes[k], 6)])
              \o <<"]">>
    ELSE HashNA

prepare_rows(st, elapsed_seconds) ==
    << <<"Count", IntStr(st.count)>>,
       <<"Mean", format_number(st.mean, 7)>>,
       <<"Median", format_number(st.median, 7)>>,
       <<"Mode", prepare_mode_string(st.count, st.modes)>>,
       <<"Population Std Dev", format_number(st.std_pop, 7)>>,
       <<"Population Variance", format_number(st.var_pop, 6)>>,
       <<"Sample Std Dev", format_number(st.std_sam, 6)>>,
       <<"Sample Variance", format_number(st.var_sam, 5)>>,
       <<"Elapsed Time (seconds)", format_number(elapsed_seconds, 7)>> >>

\* build_aligned_stats_table: the title line naming the input path, the
\* header and one line per row (padding of the columns left out)
build_aligned_stats_table(rows, input_path) ==
    [title |-> input_path, header |-> <<"Metric", "Value">>, lines |-> rows]

(***************************************************************************)
(* process_line / parse_numbers_from_file                                  *)
(***************************************************************************)
Digits == {"0", "1", "2", "3", "4", "5", "6", "7", "8", "9"}
Whitespace == {" ", "\n"}

DigitVal(c) == CHOOSE dg \in 0..9 : DigitChar(dg) = c

RECURSIVE DecValue(_)
DecValue(tok) ==
    IF Len(tok) = 0 THEN 0
    ELSE 10 * DecValue(Take(tok, Len(tok) - 1)) + DigitVal(tok[Len(tok)])

ValueError == <<"ValueError", 0>>

\* float(token), on tokens over the model's characters: a digit string is
\* its decimal value, "nan" is NaN, anything else raises ValueError
float(token) ==
    IF Len(token) > 0 /\ \A k \in 1..Len(token) : token[k] \in Digits
    THEN FromInt(DecValue(token))
    ELSE IF token = <<"n", "a", "n">> THEN NaN
    ELSE ValueError

\* line.split(): the maximal runs of non-whitespace characters
RECURSIVE SplitLoop(_, _, _, _)
SplitLoop(line, k, cur, tokens) ==
    IF k >= Len(line)
    THEN IF Len(cur) > 0 THEN Append(tokens, cur) ELSE tokens
    ELSE IF At(line, k) \in Whitespace
         THEN SplitLoop(line, k + 1, <<>>,
                        IF Len(cur) > 0 THEN Append(tokens, cur) ELSE tokens)
         ELSE SplitLoop(line, k + 1, Append(cur, At(line, k)), tokens)

split(line) == SplitLoop(line, 0, <<>>, <<>>)

InvalidToken(line_no, token) == <<"ERROR Invalid token", line_no, token>>

\* process_line that reports an invalid token and appends nothing for it
RECURSIVE TokenLoopIgnoring(_, _, _, _)
TokenLoopIgnoring(st, line_no, tokens, k) ==
    IF k >= Len(tokens) THEN st
    ELSE LET token == At(tokens, k)
             value == float(token)
         IN  TokenLoopIgnoring(
                 IF value # ValueError
                 THEN [numbers |-> Append(st.numbers, value), err |-> st.err]
                 ELSE [numbers |-> st.numbers,
                       err |-> Append(st.err, InvalidToken(line_no, token))],
                 line_no, tokens, k + 1)

\* process_line on the parser state [numbers, err] (err: stderr lines)
RECURSIVE TokenLoop(_, _, _, _)
TokenLoop(st, line_no, tokens, k) ==
    IF k >= Len(tokens) THEN st
    ELSE LET token == At(tokens, k)
             value == float(token)
         IN  TokenLoop(
                 IF value # ValueError
                 THEN [numbers |-> Append(st.numbers, value), err |-> st.err]
                 ELSE [numbers |-> Append(st.numbers, Fl(0)),
                       err |-> Append(st.err, InvalidToken(line_no, token))],
                 line_no, tokens, k + 1)

process_line(st, line_no, line) == TokenLoop(st, line_no, split(line), 0)

\* iteration over the open file: the text cut after every newline
RECURSIVE ReadLines(_, _, _, _)
ReadLines(text, k, cur, lines) ==
    IF k >= Len(text)
    THEN IF Len(cur) > 0 THEN Append(lines, cur) ELSE lines
    ELSE IF At(text, k) = "\n"
         THEN ReadLines(text, k + 1, <<>>, Append(lines, Append(cur, "\n")))
         ELSE ReadLines(text, k + 1, Append(cur, At(text, k)), lines)

RECURSIVE LineLoop(_, _, _)
LineLoop(st, lines, line_no) ==
    IF line_no > Len(lines) THEN st
    ELSE LineLoop(process_line(st, line_no, lines[line_no]), lines, line_no + 1)

\* the body of the try block of parse_numbers_from_file on a readable file
parse_numbers_from_file(text) ==
    LineLoop([numbers |-> <<>>, err |-> <<>>], ReadLines(text, 0, <<>>, <<>>), 1)

(***************************************************************************)
(* convertNumbers.py.  A Python int has no width: it is the triple         *)
(* <<"int", hi, lo>> standing for hi * Limb + lo with 0 <= lo < Limb, so   *)
(* that pow_int(16, 10) = 2^40 and the values around it are exact.  The    *)
(* small operands (a base, a digit) are plain integers.                    *)
(***************************************************************************)
Limb == 2 ^ 20
PyInt(hi, lo) == <<"int", hi, lo>>
IntOf(n) == PyInt(n \div Limb, n % Limb)
IsInt(v) == v[1] = "int"
IntNeg(a) ==
    IF a[3] = 0 THEN PyInt(0 - a[2], 0) ELSE PyInt(0 - a[2] - 1, Limb - a[3])
IntIsNeg(a) == a[2] < 0
IntIsZero(a) == a[2] = 0 /\ a[3] = 0
\* a * b and a + d for a small b >= 0, d >= 0
IntMulSmall(a, b) ==
    LET low == a[3] * b IN PyInt(a[2] * b + low \div Limb, low % Limb)
IntAddSmall(a, d) ==
    LET low == a[3] + d IN PyInt(a[2] + low \div Limb, low % Limb)
\* divmod(a, b) for a >= 0 and a small b > 0
IntDivMod(a, b) ==
    LET r == (a[2] % b) * Limb + a[3]
    IN  [q |-> PyInt(a[2] \div b, r \div b), rem |-> r % b]
\* a % m, the non-negative remainder, for a modulus that is a power of two:
\* below Limb it divides Limb, from Limb on it is a multiple of Limb
IntMod(a, m) ==
    IF m[2] = 0
    THEN PyInt(0, (((a[2] % m[3]) * (Limb % m[3])) + a[3]) % m[3])
    ELSE PyInt(a[2] % m[2], a[3])

RECURSIVE PowLoop(_, _, _)
PowLoop(base, k, result) ==
    IF k <= 0 THEN result ELSE PowLoop(base, k - 1, IntMulSmall(result, base))
pow_int(base, exp) == PowLoop(base, exp, IntOf(1))

digits_map ==
    <<"0", "1", "2", "3", "4", "5", "6", "7", "8", "9",
      "A", "B", "C", "D", "E", "F">>
Reverse(s) == [k \in 1..Len(s) |-> s[Len(s) + 1 - k]]

\* while n > 0: n, rem = divmod(n, base); chars.append(digits_map[rem])
RECURSIVE DivLoop(_, _, _)
DivLoop(n, base, chars) ==
    IF IntIsNeg(n) \/ IntIsZero(n) THEN chars
    ELSE LET dm == IntDivMod(n, base)
         IN  DivLoop(dm.q, base, Append(chars, digits_map[dm.rem + 1]))

to_base_string_positive(n, base) ==
    IF IntIsZero(n) THEN <<"0">> ELSE Reverse(DivLoop(n, base, <<>>))

\* twos_complement_bin that leaves the padding out
twos_complement_bin_unpadded(value, bits) ==
    IF bits <= 0 THEN <<"0">>
    ELSE IF ~IntIsNeg(value) THEN to_base_string_positive(value, 2)
    ELSE to_base_string_positive(IntMod(value, pow_int(2, bits)), 2)

twos_complement_bin(value, bits) ==
    IF bits <= 0 THEN <<"0">>
    ELSE LET modulus == pow_int(2, bits)
         IN  IF ~IntIsNeg(value) THEN to_base_string_positive(value, 2)
             ELSE LET m == IntMod(value, modulus)
                      str == to_base_string_positive(m, 2)
                  IN  IF Len(str) < bits
                      THEN Zeros(bits - Len(str)) \o str
                      ELSE str

twos_complement_hex(value, hex_width) ==
    IF hex_width <= 0 THEN <<"0">>
    ELSE LET modulus == pow_int(16, hex_width)
         IN  IF ~IntIsNeg(value) THEN to_base_string_positive(value, 16)
             ELSE LET m == IntMod(value, modulus)
                      str == to_base_string_positive(m, 16)
                  IN  IF Len(str) < hex_width
                      THEN Zeros(hex_width - Len(str)) \o str
                      ELSE str

\* token.strip()
RECURSIVE LStrip(_)
LStrip(t) ==
    IF Len(t) > 0 /\ t[1] \in Whitespace THEN LStrip(Tail(t)) ELSE t
strip(t) == Reverse(LStrip(Reverse(LStrip(t))))

\* value = value * 10 + digit over token[start:], None at a non-digit
RECURSIVE DigitLoop(_, _, _)
DigitLoop(token, i, value) ==
    IF i >= Len(token) THEN value
    ELSE IF At(token, i) \in Digits
    THEN DigitLoop(token, i + 1,
                   IntAddSmall(IntMulSmall(value, 10), DigitVal(At(token, i))))
    ELSE None

parse_int_token(tok) ==
    LET token == strip(tok)
        negative == At(token, 0) = "-"
        start == IF At(token, 0) \in {"+", "-"} THEN 1 ELSE 0
        value == DigitLoop(token, start, IntOf(0))
    IN  IF Len(token) = 0 THEN None
        ELSE IF start = Len(token) THEN None
        ELSE IF IsNone(value) THEN None
        ELSE IF negative THEN IntNeg(value) ELSE value

\* to_base_string: base 2 or 16 only, "0" for 0, a "-" before the digits
\* of -value for a negative value
to_base_string(value, base) ==
    IF base \notin {2, 16} THEN ValueError
    ELSE IF IntIsZero(value) THEN <<"0">>
    ELSE IF IntIsNeg(value)
    THEN <<"-">> \o Reverse(DivLoop(IntNeg(value), base, <<>>))
    ELSE Reverse(DivLoop(value, base, <<>>))

\* an item of the list parse_integers_from_file returns: the line number
\* with an int, or with the token itself (a str)
StrValue(token) == <<"str", token>>

RECURSIVE process_tokens(_, _, _, _)
process_tokens(st, line_no, tokens, k) ==
    IF k >= Len(tokens) THEN st
    ELSE LET token == At(tokens, k)
             num == parse_int_token(token)
         IN  IF IsNone(num)
             THEN process_tokens(
                      [items |-> Append(st.items,
                                        <<line_no, StrValue(token)>>),
                       err |-> Append(st.err, InvalidToken(line_no, token))],
                      line_no, tokens, k + 1)
             ELSE process_tokens(
                      [items |-> Append(st.items, <<line_no, num>>),
                       err |-> st.err],
                      line_no, tokens, k + 1)

\* raw.replace(",", " ")
ReplaceCommas(raw) ==
    [k \in 1..Len(raw) |-> IF raw[k] = "," THEN " " ELSE raw[k]]

RECURSIVE ConvertLineLoop(_, _, _)
ConvertLineLoop(st, lines, line_no) ==
    IF line_no > Len(lines) THEN st
    ELSE ConvertLineLoop(
             process_tokens(st, line_no,
                            split(ReplaceCommas(lines[line_no])), 0),
             lines, line_no + 1)

\* the body of the try block of parse_integers_from_file on a readable file
parse_integers_from_file(text) ==
    ConvertLineLoop([items |-> <<>>, err |-> <<>>],
                    ReadLines(text, 0, <<>>, <<>>), 1)

\* str(value) of an item's value
PyStr(value) ==
    IF ~IsInt(value) THEN value[2]
    ELSE IF IntIsNeg(value)
    THEN <<"-">> \o to_base_string_positive(IntNeg(value), 10)
    ELSE to_base_string_positive(value, 10)

HashValue == <<"#", "V", "A", "L", "U", "E", "!">>

\* prepare_rows of convertNumbers
prepare_conversion_rows(line_value_pairs) ==
    [k \in 1..Len(line_value_pairs) |->
        LET line_no == line_value_pairs[k][1]
            value == line_value_pairs[k][2]
        IN  IF ~IsInt(value)
            THEN <<IntStr(line_no), PyStr(value), HashValue, HashValue>>
            ELSE IF IntIsNeg(value)
            THEN <<IntStr(line_no), PyStr(value),
                   twos_complement_bin(value, 10),
                   twos_complement_hex(value, 10)>>
            ELSE <<IntStr(line_no), PyStr(value),
                   to_base_string(value, 2), to_base_string(value, 16)>>]

\* build_aligned_table: the title line naming the input path, the header,
\* one line per row and the total (padding of the columns left out)
build_aligned_table(rows, elapsed_seconds, input_path) ==
    [title |-> input_path, header |-> <<"Line", "Decimal", "Binary", "Hex">>,
     lines |-> rows, total |-> Len(rows), elapsed |-> elapsed_seconds]

\* the section main builds for a file without items
EmptySection(elapsed, input_path) ==
    [title |-> input_path, header |-> <<>>, lines |-> <<>>, total |-> 0,
     elapsed |-> elapsed]

(***************************************************************************)
(* reservation/models.py: the records of the three collections.  A stored   *)
(* row is a record with the keys of the JSON object; ids and names are      *)
(* strings, an email is a sequence of one-character strings.                *)
(***************************************************************************)
Hotel(id, name, rooms) == [id |-> id, name |-> name, rooms |-> rooms]
Hotel_from_dict(row) == Hotel(row.id, row.name, row.rooms)
Hotel_to_dict(h) == [id |-> h.id, name |-> h.name, rooms |-> h.rooms]

Customer(id, name, email) == [id |-> id, name |-> name, email |-> email]
Customer_from_dict(row) == Customer(row.id, row.name, row.email)
Customer_to_dict(c) == [id |-> c.id, name |-> c.name, email |-> c.email]

\* the fields of the Reservation dataclass, which are also the keyword
\* arguments its constructor takes
ReservationFields == {"id", "hotel_id", "customer_id", "room_number"}
\* what Reservation(**kw) does with the keywords kw
ReservationAccepts(kw) == DOMAIN kw = ReservationFields
Reservation_from_dict(row) ==
    [id |-> row.id, hotel_id |-> row.hotel_id,
     customer_id |-> row.customer_id, room_number |-> row.room_number]
Reservation_to_dict(r) ==
    [id |-> r.id, hotel_id |-> r.hotel_id,
     customer_id |-> r.customer_id, room_number |-> r.room_number]

(***************************************************************************)
(* reservation/service.py: ReservationService.  Every operation is a       *)
(* function of the loaded collections and its arguments to an outcome:     *)
(* the exception raised (NoException when it returns), the value returned, *)
(* and the rows given to store.save, if it got that far.  HotelService and *)
(* CustomerService repeat the hotel and customer operations word for word. *)
(***************************************************************************)
HOTELS == "hotels.json"
CUSTOMERS == "customers.json"
RESERVATIONS == "reservations.json"

NoException == <<"", "">>
ValueErr(message) == <<"ValueError", message>>
TypeErr(message) == <<"TypeError", message>>
AttributeErr(message) == <<"AttributeError", message>>
Raise(exc) == [raised |-> exc, value |-> "", saved |-> FALSE, rows |-> <<>>]
Return(value, rows) ==
    [raised |-> NoException, value |-> value, saved |-> TRUE, rows |-> rows]

load_hotels(rows) == [k \in 1..Len(rows) |-> Hotel_from_dict(rows[k])]
save_hotels(hs) == [k \in 1..Len(hs) |-> Hotel_to_dict(hs[k])]
load_customers(rows) == [k \in 1..Len(rows) |-> Customer_from_dict(rows[k])]
save_customers(cs) == [k \in 1..Len(cs) |-> Customer_to_dict(cs[k])]
\* a load that leaves the cancelled reservations out
load_reservations_not_cancelled(rows) ==
    LET Kept(row) == ~("status" \in DOMAIN row /\ row.status = "cancelled")
        kept == SelectSeq(rows, Kept)
    IN  [k \in 1..Len(kept) |-> Reservation_from_dict(kept[k])]

load_reservations(rows) ==
    [k \in 1..Len(rows) |-> Reservation_from_dict(rows[k])]
save_reservations(rs) == [k \in 1..Len(rs) |-> Reservation_to_dict(rs[k])]

\* any(x.id == id for x in xs)
HasId(xs, id) == \E k \in 1..Len(xs) : xs[k].id = id
\* next((i for i, x in enumerate(xs) if x.id == id), -1)
FindIndex(xs, id) ==
    IF HasId(xs, id)
    THEN (CHOOSE k \in 1..Len(xs) :
            xs[k].id = id /\ \A j \in 1..(k - 1) : xs[j].id # id) - 1
    ELSE 0 - 1
\* [x for x in xs if x.id != id]
WithoutId(xs, id) == LET Other(x) == x.id # id IN SelectSeq(xs, Other)
\* get_hotel / get_customer: the first record with the id, as a list of one
\* record, or the empty list for None
get_hotel(hs, hotel_id) ==
    IF HasId(hs, hotel_id) THEN <<At(hs, FindIndex(hs, hotel_id))>> ELSE <<>>
get_customer(cs, customer_id) ==
    IF HasId(cs, customer_id) THEN <<At(cs, FindIndex(cs, customer_id))>>
    ELSE <<>>
\* "@" in email
HasAt(email) == \E k \in 1..Len(email) : email[k] = "@"

\* create_hotel without the test for an id already stored
create_hotel_without_duplicate_test(hs, hotel_id, name, rooms) ==
    IF hotel_id = "" \/ name = "" \/ rooms <= 0
    THEN Raise(ValueErr("Invalid hotel data"))
    ELSE Return("", save_hotels(Append(hs, Hotel(hotel_id, name, rooms))))

create_hotel(hs, hotel_id, name, rooms) ==
    IF hotel_id = "" \/ name = "" \/ rooms <= 0
    THEN Raise(ValueErr("Invalid hotel data"))
    ELSE IF HasId(hs, hotel_id)
    THEN Raise(ValueErr("Hotel already exists"))
    ELSE Return("", save_hotels(Append(hs, Hotel(hotel_id, name, rooms))))

create_customer(cs, customer_id, name, email) ==
    IF customer_id = "" \/ name = "" \/ ~HasAt(email)
    THEN Raise(ValueErr("Invalid customer data"))
    ELSE IF HasId(cs, customer_id)
    THEN Raise(ValueErr("Customer already exists"))
    ELSE Return("", save_customers(
                        Append(cs, Customer(customer_id, name, email))))

delete_customer(cs, customer_id) ==
    LET new_customers == WithoutId(cs, customer_id)
    IN  IF Len(new_customers) = Len(cs)
        THEN Raise(ValueErr("Customer not found"))
        ELSE Return("", save_customers(new_customers))

\* delete_hotel that drops the first record whatever its id
delete_hotel_dropping_first(hs, hotel_id) ==
    IF ~HasId(hs, hotel_id) THEN Raise(ValueErr("Hotel not found"))
    ELSE Return("", save_hotels(Drop(hs, 1)))

delete_hotel(hs, hotel_id) ==
    LET new_hotels == WithoutId(hs, hotel_id)
    IN  IF Len(new_hotels) = Len(hs)
        THEN Raise(ValueErr("Hotel not found"))
        ELSE Return("", save_hotels(new_hotels))

\* update_customer that takes both values whether passed or not
update_customer_replacing_all(cs, customer_id, fields, name, email) ==
    LET i == FindIndex(cs, customer_id)
    IN  IF i < 0 THEN Raise(ValueErr("Customer not found"))
        ELSE Return("", save_customers(
                 [cs EXCEPT ![i + 1] = Customer(At(cs, i).id, name, email)]))

\* fields is the set of keywords passed; name and email are their values
update_customer(cs, customer_id, fields, name, email) ==
    LET i == FindIndex(cs, customer_id)
    IN  IF i < 0 THEN Raise(ValueErr("Customer not found"))
        ELSE LET current == At(cs, i)
                 new_name == IF "name" \in fields THEN name ELSE current.name
                 new_email ==
                     IF "email" \in fields THEN email ELSE current.email
                 updated == Customer(current.id, new_name, new_email)
             IN  Return("", save_customers([cs EXCEPT ![i + 1] = updated]))

\* update_hotel that saves the replaced list before it tests the values
update_hotel_saving_first(hs, hotel_id, fields, name, rooms) ==
    LET i == FindIndex(hs, hotel_id)
    IN  IF i < 0 THEN Raise(ValueErr("Hotel not found"))
        ELSE LET current == At(hs, i)
                 new_name == IF "name" \in fields THEN name ELSE current.name
                 new_rooms ==
                     IF "rooms" \in fields THEN rooms ELSE current.rooms
                 saved == Return("", save_hotels(
                              [hs EXCEPT ![i + 1] =
                                 Hotel(current.id, new_name, new_rooms)]))
             IN  IF new_name = ""
                 THEN [saved EXCEPT !.raised = ValueErr("Invalid hotel name")]
                 ELSE IF new_rooms <= 0
                 THEN [saved EXCEPT
                         !.raised = ValueErr("Invalid rooms value")]
                 ELSE saved

\* the fields passed are of the types the tests pass (name a str, rooms an
\* int), so of the isinstance tests only the value tests remain
update_hotel(hs, hotel_id, fields, name, rooms) ==
    LET i == FindIndex(hs, hotel_id)
    IN  IF i < 0 THEN Raise(ValueErr("Hotel not found"))
        ELSE LET current == At(hs, i)
                 new_name == IF "name" \in fields THEN name ELSE current.name
                 new_rooms ==
                     IF "rooms" \in fields THEN rooms ELSE current.rooms
             IN  IF new_name = "" THEN Raise(ValueErr("Invalid hotel name"))
                 ELSE IF new_rooms <= 0
                 THEN Raise(ValueErr("Invalid rooms value"))
                 ELSE Return("", save_hotels(
                          [hs EXCEPT
                             ![i + 1] = Hotel(current.id, new_name, new_rooms)]))

\* the keyword arguments create_reservation gives to Reservation(...)
NewReservation(reservation_id, hotel_id, customer_id, room_number) ==
    [id |-> reservation_id, hotel_id |-> hotel_id,
     customer_id |-> customer_id, room_number |-> room_number,
     status |-> "active"]

\* create_reservation without the test for a room already taken
create_reservation_without_room_taken_test(hs, cs, rs, reservation_id, hotel_id, customer_id, room_number) ==
    LET hotel == get_hotel(hs, hotel_id)
        customer == get_customer(cs, customer_id)
        kw == NewReservation(reservation_id, hotel_id, customer_id,
                             room_number)
    IN  IF hotel = <<>> THEN Raise(ValueErr("Hotel not found"))
        ELSE IF customer = <<>> THEN Raise(ValueErr("Customer not found"))
        ELSE IF room_number <= 0 \/ room_number > hotel[1].rooms
        THEN Raise(ValueErr("Invalid room number"))
        ELSE IF HasId(rs, reservation_id)
        THEN Raise(ValueErr("Reservation id already exists"))
        ELSE IF ~ReservationAccepts(kw)
        THEN Raise(TypeErr("unexpected keyword argument 'status'"))
        ELSE Return(reservation_id, save_reservations(Append(rs, kw)))

\* create_reservation that tests the room number from below only
create_reservation_without_upper_bound(hs, cs, rs, reservation_id, hotel_id, customer_id, room_number) ==
    LET hotel == get_hotel(hs, hotel_id)
        customer == get_customer(cs, customer_id)
        kw == NewReservation(reservation_id, hotel_id, customer_id,
                             room_number)
    IN  IF hotel = <<>> THEN Raise(ValueErr("Hotel not found"))
        ELSE IF customer = <<>> THEN Raise(ValueErr("Customer not found"))
        ELSE IF room_number <= 0
        THEN Raise(ValueErr("Invalid room number"))
        ELSE IF HasId(rs, reservation_id)
        THEN Raise(ValueErr("Reservation id already exists"))
        ELSE IF \E k \in 1..Len(rs) :
                  rs[k].hotel_id = hotel_id /\ rs[k].room_number = room_number
        THEN Raise(ValueErr("Room already taken"))
        ELSE IF ~ReservationAccepts(kw)
        THEN Raise(TypeErr("unexpected keyword argument 'status'"))
        ELSE Return(reservation_id, save_reservations(Append(rs, kw)))

create_reservation(hs, cs, rs, reservation_id, hotel_id, customer_id, room_number) ==
    LET hotel == get_hotel(hs, hotel_id)
        customer == get_customer(cs, customer_id)
        kw == NewReservation(reservation_id, hotel_id, customer_id,
                             room_number)
    IN  IF hotel = <<>> THEN Raise(ValueErr("Hotel not found"))
        ELSE IF customer = <<>> THEN Raise(ValueErr("Customer not found"))
        ELSE IF room_number <= 0 \/ room_number > hotel[1].rooms
        THEN Raise(ValueErr("Invalid room number"))
        ELSE IF HasId(rs, reservation_id)
        THEN Raise(ValueErr("Reservation id already exists"))
        ELSE IF \E k \in 1..Len(rs) :
                  rs[k].hotel_id = hotel_id /\ rs[k].room_number = room_number
        THEN Raise(ValueErr("Room already taken"))
        ELSE IF ~ReservationAccepts(kw)
        THEN Raise(TypeErr("unexpected keyword argument 'status'"))
        ELSE Return(reservation_id, save_reservations(Append(rs, kw)))

\* current.cancel(): Reservation has no attribute of that name, so the
\* lookup raises before anything is replaced or saved
cancel_reservation(rs, reservation_id) ==
    LET i == FindIndex(rs, reservation_id)
    IN  IF i < 0 THEN Raise(ValueErr("Reservation not found"))
        ELSE Raise(AttributeErr("'Reservation' object has no attribute 'cancel'"))

(***************************************************************************)
(* reservation/storage.py: JsonStore.  The text of a collection file is    *)
(* the sequence of its JSON tokens (white space and indentation left       *)
(* out): punctuation, strings, numbers, and bare words, which no JSON      *)
(* value starts with.  A string of one-character strings (an email) is a   *)
(* token of its own kind.                                                  *)
(***************************************************************************)
Punct(c) == <<"punct", c>>
IsPunct(tok, c) == tok[1] = "punct" /\ tok[2] = c
Word(w) == <<"word", w>>

\* the keys of a row in the order the dict holds them (the order of the
\* dataclass fields)
KeyOrder ==
    <<"id", "name", "rooms", "email", "hotel_id", "customer_id",
      "room_number", "status">>
NumberKeys == {"rooms", "room_number"}
TextKeys == {"email"}

\* the token json.dumps writes for the value of a key
ScalarToken(key, v) ==
    IF key \in NumberKeys THEN <<"number", v>>
    ELSE IF key \in TextKeys THEN <<"text", v>>
    ELSE <<"string", v>>

RECURSIVE DumpMembers(_, _, _)
DumpMembers(row, keys, k) ==
    IF k > Len(keys) THEN <<>>
    ELSE (IF k > 1 THEN <<Punct(",")>> ELSE <<>>)
         \o <<<<"string", keys[k]>>, Punct(":"),
              ScalarToken(keys[k], row[keys[k]])>>
         \o DumpMembers(row, keys, k + 1)

DumpObject(row) ==
    LET InRow(key) == key \in DOMAIN row
    IN  <<Punct("{")>> \o DumpMembers(row, SelectSeq(KeyOrder, InRow), 1)
        \o <<Punct("}")>>

RECURSIVE DumpElements(_, _)
DumpElements(rows, k) ==
    IF k > Len(rows) THEN <<>>
    ELSE (IF k > 1 THEN <<Punct(",")>> ELSE <<>>)
         \o DumpObject(rows[k]) \o DumpElements(rows, k + 1)

\* json.dumps(rows, ensure_ascii=False, indent=2) of a list of dicts
json_dumps(rows) == <<Punct("[")>> \o DumpElements(rows, 1) \o <<Punct("]")>>

\* json.loads: a value is a scalar, an array of values or an object of
\* members; anything else is a JSONDecodeError
TokAt(text, i) == IF i <= Len(text) THEN text[i] ELSE <<"end", "">>
DecodeError == [ok |-> FALSE, value |-> <<>>, next |-> 0]
Decoded(value, next) == [ok |-> TRUE, value |-> value, next |-> next]

RECURSIVE ParseValue(_, _)
RECURSIVE ParseElements(_, _, _)
RECURSIVE ParseMembers(_, _, _)
ParseValue(text, i) ==
    LET tok == TokAt(text, i)
    IN  IF tok[1] \in {"string", "text", "number"} THEN Decoded(tok[2], i + 1)
        ELSE IF IsPunct(tok, "[")
        THEN IF IsPunct(TokAt(text, i + 1), "]") THEN Decoded(<<>>, i + 2)
             ELSE ParseElements(text, i + 1, <<>>)
        ELSE IF IsPunct(tok, "{")
        THEN IF IsPunct(TokAt(text, i + 1), "}") THEN Decoded(<<>>, i + 2)
             ELSE ParseMembers(text, i + 1, <<>>)
        ELSE DecodeError

ParseElements(text, i, acc) ==
    LET v == ParseValue(text, i)
    IN  IF ~v.ok THEN DecodeError
        ELSE IF IsPunct(TokAt(text, v.next), ",")
        THEN ParseElements(text, v.next + 1, Append(acc, v.value))
        ELSE IF IsPunct(TokAt(text, v.next), "]")
        THEN Decoded(Append(acc, v.value), v.next + 1)
        ELSE DecodeError

ParseMembers(text, i, obj) ==
    LET key == TokAt(text, i)
        v == ParseValue(text, i + 2)
        new == [f \in (DOMAIN obj) \cup {key[2]} |->
                  IF f = key[2] THEN v.value ELSE obj[f]]
    IN  IF key[1] # "string" \/ ~IsPunct(TokAt(text, i + 1), ":") THEN DecodeError
        ELSE IF ~v.ok THEN DecodeError
        ELSE IF IsPunct(TokAt(text, v.next), ",")
        THEN ParseMembers(text, v.next + 1, new)
        ELSE IF IsPunct(TokAt(text, v.next), "}")
        THEN Decoded(new, v.next + 1)
        ELSE DecodeError

json_loads(text) ==
    LET v == ParseValue(text, 1)
    IN  IF v.ok /\ v.next = Len(text) + 1 THEN v ELSE DecodeError

InvalidJSON(name) == <<"[ERROR] invalid JSON", name>>
ContinuingEmpty == <<"[WARN] Continuing with empty list", "">>
JSONDecodeErr == <<"JSONDecodeError", "">>

\* a load that lets the JSONDecodeError out
JsonStore_load_raising(dir, name) ==
    IF dir[name][1] # "text"
    THEN [raised |-> NoException, rows |-> <<>>, printed |-> <<>>]
    ELSE LET v == json_loads(dir[name][2])
         IN  IF v.ok
             THEN [raised |-> NoException, rows |-> v.value, printed |-> <<>>]
             ELSE [raised |-> JSONDecodeErr, rows |-> <<>>, printed |-> <<>>]

\* JsonStore.load(name) on the directory dir, a function from file names to
\* files
JsonStore_load(dir, name) ==
    IF dir[name][1] # "text"
    THEN [raised |-> NoException, rows |-> <<>>, printed |-> <<>>]
    ELSE LET v == json_loads(dir[name][2])
         IN  IF v.ok
             THEN [raised |-> NoException, rows |-> v.value, printed |-> <<>>]
             ELSE [raised |-> NoException, rows |-> <<>>,
                   printed |-> <<InvalidJSON(name), ContinuingEmpty>>]

\* a save that keeps a file that is already there
JsonStore_save_once(dir, name, rows) ==
    IF dir[name][1] = "text" THEN dir
    ELSE [dir EXCEPT ![name] = <<"text", json_dumps(rows)>>]

\* JsonStore.save(name, rows)
JsonStore_save(dir, name, rows) ==
    [dir EXCEPT ![name] = <<"text", json_dumps(rows)>>]

(***************************************************************************)
(* The arguments the service is called with.                               *)
(***************************************************************************)
\* the largest number of rooms a hotel is given
MaxRooms == 2
HotelIds == {"", "H1", "H2"}
CustomerIds == {"", "C1", "C2"}
ReservationIds == {"R1", "R2"}
HotelNames == {"", "A", "B"}
Names == {"", "A"}
Emails == {<<"a", "@", "b">>, <<"a", "b">>}
RoomCounts == 0..MaxRooms
RoomNumbers == 0..(MaxRooms + 1)
\* the reservations file before the first call: empty, or holding the row
\* the reservation tests put there, or that row as the tests expect it
\* after a cancellation
Seeds ==
    {<<>>,
     <<[id |-> "R1", hotel_id |-> "H1", customer_id |-> "C1",
        room_number |-> 1]>>,
     <<[id |-> "R1", hotel_id |-> "H1", customer_id |-> "C1",
        room_number |-> 1, status |-> "cancelled"]>>}

\* the record of the last call: operation, arguments, exception raised,
\* value returned and the collections given to store.save, in order
NoCall ==
    [op |-> "", id |-> "", hotel_id |-> "", customer_id |-> "",
     room_number |-> 0, name |-> "", rooms |-> 0, email |-> <<>>,
     fields |-> {}, raised |-> NoException, value |-> "", saved |-> <<>>]
Outcome(call, r, collection) ==
    [call EXCEPT !.raised = r.raised, !.value = r.value,
                 !.saved = IF r.saved THEN <<collection>> ELSE <<>>]

(***************************************************************************)
(* The inputs: the files named on the command line.                        *)
(***************************************************************************)
\* the pieces input text is built from: blank, newline, a digit, a letter
\* that belongs to no number, and the token nan
Lexemes == {<<" ">>, <<"\n">>, <<"1">>, <<"x">>, <<"n", "a", "n">>}

RECURSIVE TextsOfSize(_)
TextsOfSize(k) ==
    IF k = 0 THEN {<<>>}
    ELSE {l \o t : l \in Lexemes, t \in TextsOfSize(k - 1)}

\* what open(path) meets: no such file, a file that cannot be read (any
\* other OSError), or text (a file that decodes as UTF-8)
Missing == <<"missing", <<>>>>
Unreadable == <<"unreadable", <<>>>>
TextFile(t) == <<"text", t>>

FilesOfSize(k) ==
    (IF k = 0 THEN {Missing, Unreadable} ELSE {})
    \cup {TextFile(t) : t \in TextsOfSize(k)}

\* the sequences of n files of at most budget lexemes together
RECURSIVE Disks(_, _)
Disks(n, budget) ==
    IF n = 0 THEN {<<>>}
    ELSE UNION {{<<f>> \o r : f \in FilesOfSize(k),
                              r \in Disks(n - 1, budget - k)} : k \in 0..budget}

\* the collection files of a store, what a file holds before the first
\* call (nothing, text that is no JSON, JSON cut short), and the rows the
\* tests of the store save
Collections == {HOTELS, CUSTOMERS, RESERVATIONS}
Corrupted == TextFile(<<Punct("{"), Word("BAD"), Word("JSON"), Punct("]")>>)
Truncated == TextFile(<<Punct("["), Punct("{"), <<"string", "id">>>>)
StoreRows(name) ==
    IF name = HOTELS
    THEN {<<>>, <<Hotel("H1", "A", 3)>>,
          <<Hotel("H2", "B", 1), Hotel("H1", "A", 3)>>}
    ELSE IF name = CUSTOMERS
    THEN {<<Customer("C1", "A", <<"a", "@", "b">>)>>}
    ELSE Seeds \cup
         {<<[id |-> "R1", hotel_id |-> "H1", customer_id |-> "C1",
             room_number |-> 1, status |-> "active"],
            [id |-> "R2", hotel_id |-> "H1", customer_id |-> "C1",
             room_number |-> 2, status |-> "cancelled"]>>}

\* the record of the last call on the store: the file it names and what the
\* file held, the rows saved or loaded, what was raised, printed, returned
StoreCall ==
    [op |-> "", name |-> "", id |-> "", rows |-> <<>>, before |-> Missing,
     raised |-> NoException, printed |-> <<>>, value |-> <<>>]

\* the pieces the input text of convertNumbers is built from: newline,
\* comma, a sign, a digit, and a letter that belongs to no integer
ConvertLexemes == {<<"\n">>, <<",">>, <<"-">>, <<"7">>, <<"x">>}

RECURSIVE ConvertTextsOfSize(_)
ConvertTextsOfSize(k) ==
    IF k = 0 THEN {<<>>}
    ELSE {l \o t : l \in ConvertLexemes, t \in ConvertTextsOfSize(k - 1)}

ConvertFilesOfSize(k) ==
    (IF k = 0 THEN {Missing, Unreadable} ELSE {})
    \cup {TextFile(t) : t \in ConvertTextsOfSize(k)}

RECURSIVE ConvertDisks(_, _)
ConvertDisks(n, budget) ==
    IF n = 0 THEN {<<>>}
    ELSE UNION {{<<f>> \o r : f \in ConvertFilesOfSize(k),
                              r \in ConvertDisks(n - 1, budget - k)} :
                k \in 0..budget}

ConvertFilesTable == [k \in 0..MaxItems |-> ConvertFilesOfSize(k)]
ConvertShorterBatches ==
    [b \in 0..MaxItems |-> UNION {ConvertDisks(n, b) : n \in 0..(MaxArgs - 1)}]

\* the integers given to the conversion functions: every value up to
\* MaxValue either side of zero, and the values around 2^20, 2^36 and 2^40
MaxValue == 1100
ConvertValues ==
    {IntOf(n) : n \in (0 - MaxValue)..MaxValue}
    \cup {PyInt(1, 0), PyInt(0 - 1, 0), PyInt(0 - (2 ^ 16), 0),
          PyInt(Limb, 0), PyInt(0 - Limb, 0), PyInt(0 - Limb, 1),
          PyInt(0 - Limb - 1, Limb - 1)}

NoConversion == [value |-> IntOf(0), bin |-> <<>>, hex |-> <<>>, rows |-> <<>>]

\* time.perf_counter() differences shown in a report: one tick of the
\* fixed-point floats stands for every positive elapsed time
ElapsedTimes == {Fl(1)}

\* the values of the samples given to the statistics functions
Vals == {Fl(0 - Scale), Fl(0), Fl(Scale), Fl(2 * Scale), NaN}
Samples == UNION {[1..n -> Vals] : n \in 0..MaxSample}

NoStats == [count |-> 0, mean |-> None, median |-> None, modes |-> <<>>,
            var_pop |-> None, std_pop |-> None,
            var_sam |-> None, std_sam |-> None]

NoFn == [sorted |-> <<>>, resorted |-> <<>>, mean |-> None, median |-> None,
         modes |-> <<>>, var_pop |-> None, var_sam |-> None,
         std_pop |-> None, std_sam |-> None, sqrt_none |-> None, rows |-> <<>>,
         sqrt_value |-> None, sqrt_result |-> None, sqrt_passes |-> 0]

Running == 0 - 1

(***************************************************************************)
(* main                                                                    *)
(***************************************************************************)
Usage == <<"Usage", 0, <<>>>>
FileNotFound(path) == <<"FATAL File not found", path, <<>>>>
CannotRead(path) == <<"FATAL Cannot read file", path, <<>>>>
NoValidInputs == <<"ERROR No valid inputs were processed.", 0, <<>>>>
CouldNotWrite == <<"ERROR Could not write results file", 0, <<>>>>

\* the files of k lexemes, and the batches of fewer than MaxArgs files of at
\* most b lexemes together
FilesTable == [k \in 0..MaxItems |-> FilesOfSize(k)]
ShorterBatches ==
    [b \in 0..MaxItems |-> UNION {Disks(n, b) : n \in 0..(MaxArgs - 1)}]

\* a command line of at most MaxArgs files of at most MaxItems lexemes
\* together: none, or a first file and a shorter batch
Init ==
    /\ \/ disk = <<>>
       \/ \E k \in 0..MaxItems :
            \E f \in FilesTable[k] :
              \E r \in ShorterBatches[MaxItems - k] : disk = <<f>> \o r
    /\ input_paths = [k \in 1..Len(disk) |-> k]
    /\ pc = "start"
    /\ idx = 0
    /\ data = <<>>
    /\ stats = NoStats
    /\ all_sections = <<>>
    /\ stderr = <<>>
    /\ stdout = <<>>
    /\ exit_status = Running
    /\ results_file = <<>>
    /\ fn = NoFn
    /\ hotels = <<>> /\ customers = <<>> /\ reservations = <<>>
    /\ seed = <<>> /\ last = NoCall

\* the usage branch ending with sys.exit(0)
MainUsageExitZero ==
    /\ pc = "start"
    /\ Len(input_paths) = 0
    /\ stderr' = Append(stderr, Usage)
    /\ exit_status' = 0
    /\ pc' = "exited"
    /\ UNCHANGED <<input_paths, disk, idx, data, stats, all_sections, stdout,
                   results_file, fn>>
    /\ UNCHANGED <<hotels, customers, reservations, seed, last>>

\* len(sys.argv) < 2: usage message, sys.exit(2)
MainUsage ==
    /\ pc = "start"
    /\ Len(input_paths) = 0
    /\ stderr' = Append(stderr, Usage)
    /\ exit_status' = 2
    /\ pc' = "exited"
    /\ UNCHANGED <<input_paths, disk, idx, data, stats, all_sections, stdout,
                   results_file, fn>>
    /\ UNCHANGED <<hotels, customers, reservations, seed, last>>

MainStart ==
    /\ pc = "start"
    /\ Len(input_paths) >= 1
    /\ all_sections' = <<>>
    /\ idx' = 0
    /\ pc' = "loop"
    /\ UNCHANGED <<input_paths, disk, data, stats, stderr, stdout,
                   exit_status, results_file, fn>>
    /\ UNCHANGED <<hotels, customers, reservations, seed, last>>

\* parse_numbers_from_file: open() raises FileNotFoundError; the handler
\* prints and calls sys.exit(1); SystemExit is no OSError, so the except
\* clause of main does not catch it and the run ends
ParseFileNotFound ==
    /\ pc = "loop"
    /\ idx < Len(input_paths)
    /\ disk[At(input_paths, idx)] = Missing
    /\ stderr' = Append(stderr, FileNotFound(At(input_paths, idx)))
    /\ exit_status' = 1
    /\ pc' = "exited"
    /\ UNCHANGED <<input_paths, disk, idx, data, stats, all_sections, stdout,
                   results_file, fn>>
    /\ UNCHANGED <<hotels, customers, reservations, seed, last>>

\* parse_numbers_from_file: any other OSError, handled the same way
ParseOSError ==
    /\ pc = "loop"
    /\ idx < Len(input_paths)
    /\ disk[At(input_paths, idx)] = Unreadable
    /\ stderr' = Append(stderr, CannotRead(At(input_paths, idx)))
    /\ exit_status' = 1
    /\ pc' = "exited"
    /\ UNCHANGED <<input_paths, disk, idx, data, stats, all_sections, stdout,
                   results_file, fn>>
    /\ UNCHANGED <<hotels, customers, reservations, seed, last>>

\* parse_numbers_from_file returns the numbers of a readable file
ParseOk ==
    /\ pc = "loop"
    /\ idx < Len(input_paths)
    /\ disk[At(input_paths, idx)][1] = "text"
    /\ LET r == parse_numbers_from_file(disk[At(input_paths, idx)][2])
       IN  /\ data' = r.numbers
           /\ stderr' = stderr \o r.err
    /\ pc' = "parsed"
    /\ UNCHANGED <<input_paths, disk, idx, stats, all_sections, stdout,
                   exit_status, results_file, fn>>
    /\ UNCHANGED <<hotels, customers, reservations, seed, last>>

\* a loop body that puts the new section in front of the earlier ones
BuildSectionInFront ==
    /\ pc = "parsed"
    /\ \E elapsed \in ElapsedTimes :
         LET st == compute_all_statistics(data)
         IN  /\ stats' = st
             /\ all_sections' =
                  <<build_aligned_stats_table(prepare_rows(st, elapsed),
                                              At(input_paths, idx))>>
                  \o all_sections
    /\ idx' = idx + 1
    /\ pc' = "loop"
    /\ UNCHANGED <<input_paths, disk, data, stderr, stdout, exit_status,
                   results_file, fn>>
    /\ UNCHANGED <<hotels, customers, reservations, seed, last>>

\* the rest of the loop body: statistics, rows, section
BuildSection ==
    /\ pc = "parsed"
    /\ \E elapsed \in ElapsedTimes :
         LET st == compute_all_statistics(data)
         IN  /\ stats' = st
             /\ all_sections' =
                  Append(all_sections,
                         build_aligned_stats_table(prepare_rows(st, elapsed),
                                                   At(input_paths, idx)))
    /\ idx' = idx + 1
    /\ pc' = "loop"
    /\ UNCHANGED <<input_paths, disk, data, stderr, stdout, exit_status,
                   results_file, fn>>
    /\ UNCHANGED <<hotels, customers, reservations, seed, last>>

\* the combined report: the sections and the batch summary
CombinedReport(sections) ==
    [sections |-> sections, files_processed |-> Len(sections)]

\* after the loop: no section -> error and sys.exit(1); otherwise print the
\* report and write_results, which reports an OSError and returns
Finish ==
    /\ pc = "loop"
    /\ idx >= Len(input_paths)
    /\ IF Len(all_sections) = 0
       THEN /\ stderr' = Append(stderr, NoValidInputs)
            /\ exit_status' = 1
            /\ UNCHANGED <<stdout, results_file>>
       ELSE /\ stdout' = Append(stdout, CombinedReport(all_sections))
            /\ \E ok \in BOOLEAN :
                 IF ok
                 THEN /\ results_file' =
                           Append(results_file, CombinedReport(all_sections))
                      /\ UNCHANGED stderr
                 ELSE /\ stderr' = Append(stderr, CouldNotWrite)
                      /\ UNCHANGED results_file
            /\ exit_status' = 0
    /\ pc' = "exited"
    /\ UNCHANGED <<input_paths, disk, idx, data, stats, all_sections, fn>>
    /\ UNCHANGED <<hotels, customers, reservations, seed, last>>

Next ==
    \/ MainUsage
    \/ MainStart
    \/ ParseFileNotFound
    \/ ParseOSError
    \/ ParseOk
    \/ BuildSection
    \/ Finish

Spec == Init /\ [][Next]_vars

(***************************************************************************)
(* The statistics functions applied one by one to a sample.                *)
(***************************************************************************)
InitStats ==
    /\ data \in Samples
    /\ pc = "sample"
    /\ input_paths = <<>>
    /\ disk = <<>>
    /\ idx = 0
    /\ stats = NoStats
    /\ all_sections = <<>>
    /\ stderr = <<>>
    /\ stdout = <<>>
    /\ exit_status = Running
    /\ results_file = <<>>
    /\ fn = NoFn
    /\ hotels = <<>> /\ customers = <<>> /\ reservations = <<>>
    /\ seed = <<>> /\ last = NoCall

CallMergeSort ==
    /\ pc = "sample"
    /\ fn' = [fn EXCEPT !.sorted = merge_sort(data),
                        !.resorted = merge_sort(merge_sort(data))]
    /\ pc' = "sorted"
    /\ UNCHANGED <<input_paths, disk, idx, data, stats, all_sections, stderr,
                   stdout, exit_status, results_file>>
    /\ UNCHANGED <<hotels, customers, reservations, seed, last>>

CallCentral ==
    /\ pc = "sorted"
    /\ fn' = [fn EXCEPT !.mean = compute_mean(data),
                        !.median = compute_median(fn.sorted),
                        !.modes = compute_mode(data)]
    /\ pc' = "central"
    /\ UNCHANGED <<input_paths, disk, idx, data, stats, all_sections, stderr,
                   stdout, exit_status, results_file>>
    /\ UNCHANGED <<hotels, customers, reservations, seed, last>>

CallDispersion ==
    /\ pc = "central"
    /\ LET vp == compute_variance_population(data, fn.mean)
           vs == compute_variance_sample(data, fn.mean)
       IN  fn' = [fn EXCEPT !.var_pop = vp, !.var_sam = vs,
                            !.std_pop = sqrt_newton(vp),
                            !.std_sam = sqrt_newton(vs),
                            !.sqrt_none = sqrt_newton(None)]
    /\ pc' = "dispersion"
    /\ UNCHANGED <<input_paths, disk, idx, data, stats, all_sections, stderr,
                   stdout, exit_status, results_file>>
    /\ UNCHANGED <<hotels, customers, reservations, seed, last>>

CallComputeAll ==
    /\ pc = "dispersion"
    /\ stats' = compute_all_statistics(data)
    /\ pc' = "computed"
    /\ UNCHANGED <<input_paths, disk, idx, data, all_sections, stderr,
                   stdout, exit_status, results_file, fn>>
    /\ UNCHANGED <<hotels, customers, reservations, seed, last>>

CallPrepareRows ==
    /\ pc = "computed"
    /\ \E elapsed \in ElapsedTimes :
         fn' = [fn EXCEPT !.rows = prepare_rows(stats, elapsed)]
    /\ pc' = "rendered"
    /\ UNCHANGED <<input_paths, disk, idx, data, stats, all_sections, stderr,
                   stdout, exit_status, results_file>>
    /\ UNCHANGED <<hotels, customers, reservations, seed, last>>

\* sqrt_newton called on a value of the sample, a variance of the sample or
\* None
CallSqrtNewton ==
    /\ pc = "rendered"
    /\ \E value \in Range(data) \cup {None, fn.var_pop, fn.var_sam} :
         fn' = [fn EXCEPT !.sqrt_value = value,
                          !.sqrt_result = sqrt_newton(value),
                          !.sqrt_passes = sqrt_newton_passes(value)]
    /\ pc' = "sqrt"
    /\ UNCHANGED <<input_paths, disk, idx, data, stats, all_sections, stderr,
                   stdout, exit_status, results_file>>
    /\ UNCHANGED <<hotels, customers, reservations, seed, last>>

NextStats ==
    \/ CallMergeSort
    \/ CallCentral
    \/ CallDispersion
    \/ CallComputeAll
    \/ CallPrepareRows
    \/ CallSqrtNewton

SpecStats == InitStats /\ [][NextStats]_vars

(***************************************************************************)
(* The reservation service: any sequence of calls on one store.            *)
(***************************************************************************)
InitService ==
    /\ seed \in Seeds
    /\ reservations = seed
    /\ hotels = <<>>
    /\ customers = <<>>
    /\ last = NoCall
    /\ pc = "service"
    /\ input_paths = <<>> /\ disk = <<>> /\ idx = 0 /\ data = <<>>
    /\ stats = NoStats /\ all_sections = <<>> /\ stderr = <<>>
    /\ stdout = <<>> /\ exit_status = Running /\ results_file = <<>>
    /\ fn = NoFn

CreateHotel ==
    /\ pc = "service"
    /\ \E hotel_id \in HotelIds, name \in HotelNames, rooms \in RoomCounts :
         LET r == create_hotel(load_hotels(hotels), hotel_id, name, rooms)
         IN  /\ hotels' = IF r.saved THEN r.rows ELSE hotels
             /\ last' = Outcome([NoCall EXCEPT !.op = "create_hotel",
                                               !.id = hotel_id,
                                               !.name = name,
                                               !.rooms = rooms], r, HOTELS)
    /\ UNCHANGED <<customers, reservations, seed>>
    /\ pc' = "returned"
    /\ UNCHANGED <<input_paths, disk, idx, data, stats, all_sections,
                   stderr, stdout, exit_status, results_file, fn>>

UpdateHotel ==
    /\ pc = "service"
    /\ \E hotel_id \in HotelIds \ {""}, fields \in SUBSET {"name", "rooms"} :
         \E name \in IF "name" \in fields THEN HotelNames ELSE {""},
            rooms \in IF "rooms" \in fields THEN RoomCounts ELSE {0} :
           LET r == update_hotel(load_hotels(hotels), hotel_id, fields, name,
                                 rooms)
           IN  /\ hotels' = IF r.saved THEN r.rows ELSE hotels
               /\ last' = Outcome([NoCall EXCEPT !.op = "update_hotel",
                                                 !.id = hotel_id,
                                                 !.fields = fields,
                                                 !.name = name,
                                                 !.rooms = rooms], r, HOTELS)
    /\ UNCHANGED <<customers, reservations, seed>>
    /\ pc' = "returned"
    /\ UNCHANGED <<input_paths, disk, idx, data, stats, all_sections,
                   stderr, stdout, exit_status, results_file, fn>>

DeleteHotel ==
    /\ pc = "service"
    /\ \E hotel_id \in HotelIds \ {""} :
         LET r == delete_hotel(load_hotels(hotels), hotel_id)
         IN  /\ hotels' = IF r.saved THEN r.rows ELSE hotels
             /\ last' = Outcome([NoCall EXCEPT !.op = "delete_hotel",
                                               !.id = hotel_id], r, HOTELS)
    /\ UNCHANGED <<customers, reservations, seed>>
    /\ pc' = "returned"
    /\ UNCHANGED <<input_paths, disk, idx, data, stats, all_sections,
                   stderr, stdout, exit_status, results_file, fn>>

CreateCustomer ==
    /\ pc = "service"
    /\ \E customer_id \in CustomerIds, name \in Names, email \in Emails :
         LET r == create_customer(load_customers(customers), customer_id,
                                  name, email)
         IN  /\ customers' = IF r.saved THEN r.rows ELSE customers
             /\ last' = Outcome([NoCall EXCEPT !.op = "create_customer",
                                               !.id = customer_id,
                                               !.name = name,
                                               !.email = email], r, CUSTOMERS)
    /\ UNCHANGED <<hotels, reservations, seed>>
    /\ pc' = "returned"
    /\ UNCHANGED <<input_paths, disk, idx, data, stats, all_sections,
                   stderr, stdout, exit_status, results_file, fn>>

UpdateCustomer ==
    /\ pc = "service"
    /\ \E customer_id \in CustomerIds \ {""},
          fields \in SUBSET {"name", "email"} :
         \E name \in IF "name" \in fields THEN Names ELSE {""},
            email \in IF "email" \in fields THEN Emails ELSE {<<>>} :
           LET r == update_customer(load_customers(customers), customer_id,
                                    fields, name, email)
           IN  /\ customers' = IF r.saved THEN r.rows ELSE customers
               /\ last' = Outcome([NoCall EXCEPT !.op = "update_customer",
                                                 !.id = customer_id,
                                                 !.fields = fields,
                                                 !.name = name,
                                                 !.email = email],
                                  r, CUSTOMERS)
    /\ UNCHANGED <<hotels, reservations, seed>>
    /\ pc' = "returned"
    /\ UNCHANGED <<input_paths, disk, idx, data, stats, all_sections,
                   stderr, stdout, exit_status, results_file, fn>>

DeleteCustomer ==
    /\ pc = "service"
    /\ \E customer_id \in CustomerIds \ {""} :
         LET r == delete_customer(load_customers(customers), customer_id)
         IN  /\ customers' = IF r.saved THEN r.rows ELSE customers
             /\ last' = Outcome([NoCall EXCEPT !.op = "delete_customer",
                                               !.id = customer_id],
                                r, CUSTOMERS)
    /\ UNCHANGED <<hotels, reservations, seed>>
    /\ pc' = "returned"
    /\ UNCHANGED <<input_paths, disk, idx, data, stats, all_sections,
                   stderr, stdout, exit_status, results_file, fn>>

CreateReservation ==
    /\ pc = "service"
    /\ \E reservation_id \in ReservationIds, hotel_id \in HotelIds \ {""},
          customer_id \in CustomerIds \ {""}, room_number \in RoomNumbers :
         LET r == create_reservation(load_hotels(hotels),
                                     load_customers(customers),
                                     load_reservations(reservations),
                                     reservation_id, hotel_id, customer_id,
                                     room_number)
         IN  /\ reservations' = IF r.saved THEN r.rows ELSE reservations
             /\ last' = Outcome([NoCall EXCEPT !.op = "create_reservation",
                                               !.id = reservation_id,
                                               !.hotel_id = hotel_id,
                                               !.customer_id = customer_id,
                                               !.room_number = room_number],
                                r, RESERVATIONS)
    /\ UNCHANGED <<hotels, customers, seed>>
    /\ pc' = "returned"
    /\ UNCHANGED <<input_paths, disk, idx, data, stats, all_sections,
                   stderr, stdout, exit_status, results_file, fn>>

CancelReservation ==
    /\ pc = "service"
    /\ \E reservation_id \in ReservationIds :
         LET r == cancel_reservation(load_reservations(reservations),
                                     reservation_id)
         IN  /\ reservations' = IF r.saved THEN r.rows ELSE reservations
             /\ last' = Outcome([NoCall EXCEPT !.op = "cancel_reservation",
                                               !.id = reservation_id],
                                r, RESERVATIONS)
    /\ UNCHANGED <<hotels, customers, seed>>
    /\ pc' = "returned"
    /\ UNCHANGED <<input_paths, disk, idx, data, stats, all_sections,
                   stderr, stdout, exit_status, results_file, fn>>

\* the caller has the outcome of the call and goes on to its next call
NextCall ==
    /\ pc = "returned"
    /\ last' = NoCall
    /\ pc' = "service"
    /\ UNCHANGED <<hotels, customers, reservations, seed>>
    /\ UNCHANGED <<input_paths, disk, idx, data, stats, all_sections,
                   stderr, stdout, exit_status, results_file, fn>>

NextService ==
    \/ CreateHotel
    \/ UpdateHotel
    \/ DeleteHotel
    \/ CreateCustomer
    \/ UpdateCustomer
    \/ DeleteCustomer
    \/ CreateReservation
    \/ CancelReservation
    \/ NextCall

SpecService == InitService /\ [][NextService]_vars

(***************************************************************************)
(* The store: any sequence of saves and loads on one directory, and the    *)
(* service calls that go through it.                                       *)
(***************************************************************************)
InitStore ==
    /\ disk \in [Collections -> {Missing, Corrupted, Truncated}]
    /\ last = StoreCall
    /\ pc = "store"
    /\ hotels = <<>> /\ customers = <<>> /\ reservations = <<>>
    /\ seed = <<>>
    /\ input_paths = <<>> /\ idx = 0 /\ data = <<>>
    /\ stats = NoStats /\ all_sections = <<>> /\ stderr = <<>>
    /\ stdout = <<>> /\ exit_status = Running /\ results_file = <<>>
    /\ fn = NoFn

\* store.save(name, rows)
StoreSave ==
    /\ pc = "store"
    /\ \E name \in Collections :
         \E rows \in StoreRows(name) :
           /\ disk' = JsonStore_save(disk, name, rows)
           /\ last' = [StoreCall EXCEPT !.op = "save", !.name = name,
                                        !.rows = rows, !.before = disk[name]]
    /\ UNCHANGED <<input_paths, idx, data, stats, all_sections, stderr,
                   stdout, exit_status, results_file, fn, pc>>
    /\ UNCHANGED <<hotels, customers, reservations, seed>>

\* store.load(name)
StoreLoad ==
    /\ pc = "store"
    /\ \E name \in Collections :
         LET l == JsonStore_load(disk, name)
         IN  last' = [StoreCall EXCEPT !.op = "load", !.name = name,
                                       !.rows = l.rows, !.raised = l.raised,
                                       !.printed = l.printed,
                                       !.before = disk[name]]
    /\ UNCHANGED <<input_paths, disk, idx, data, stats, all_sections, stderr,
                   stdout, exit_status, results_file, fn, pc>>
    /\ UNCHANGED <<hotels, customers, reservations, seed>>

\* ReservationService(store).create_hotel: the arguments are tested, the
\* hotels are loaded from the store, and the new list is saved to it
StoreCreateHotel ==
    /\ pc = "store"
    /\ \E hotel_id \in {"", "H1", "H2"} :
         LET l == JsonStore_load(disk, HOTELS)
             r == IF create_hotel(<<>>, hotel_id, "A", 1).raised = NoException
                     /\ l.raised # NoException
                  THEN Raise(l.raised)
                  ELSE create_hotel(load_hotels(l.rows), hotel_id, "A", 1)
         IN  /\ disk' = IF r.saved THEN JsonStore_save(disk, HOTELS, r.rows)
                        ELSE disk
             /\ last' = [StoreCall EXCEPT !.op = "create_hotel",
                                          !.name = HOTELS, !.id = hotel_id,
                                          !.rows = r.rows,
                                          !.raised = r.raised,
                                          !.printed = l.printed,
                                          !.before = disk[HOTELS]]
    /\ UNCHANGED <<input_paths, idx, data, stats, all_sections, stderr,
                   stdout, exit_status, results_file, fn, pc>>
    /\ UNCHANGED <<hotels, customers, reservations, seed>>

\* ReservationService(store).get_hotel
StoreGetHotel ==
    /\ pc = "store"
    /\ \E hotel_id \in {"H1", "H2"} :
         LET l == JsonStore_load(disk, HOTELS)
         IN  last' = [StoreCall EXCEPT
                        !.op = "get_hotel", !.name = HOTELS, !.id = hotel_id,
                        !.raised = l.raised, !.printed = l.printed,
                        !.before = disk[HOTELS],
                        !.value = IF l.raised # NoException THEN <<>>
                                  ELSE get_hotel(load_hotels(l.rows),
                                                 hotel_id)]
    /\ UNCHANGED <<input_paths, disk, idx, data, stats, all_sections, stderr,
                   stdout, exit_status, results_file, fn, pc>>
    /\ UNCHANGED <<hotels, customers, reservations, seed>>

\* the load-and-save of the reservations collection:
\* _save_reservations(_load_reservations())
LoadAndSaveReservations ==
    /\ pc = "store"
    /\ LET l == JsonStore_load(disk, RESERVATIONS)
           rows == save_reservations(load_reservations(l.rows))
       IN  /\ disk' = IF l.raised = NoException
                      THEN JsonStore_save(disk, RESERVATIONS, rows)
                      ELSE disk
           /\ last' = [StoreCall EXCEPT !.op = "load_and_save",
                                        !.name = RESERVATIONS,
                                        !.rows = rows, !.raised = l.raised,
                                        !.printed = l.printed,
                                        !.before = disk[RESERVATIONS]]
    /\ UNCHANGED <<input_paths, idx, data, stats, all_sections, stderr,
                   stdout, exit_status, results_file, fn, pc>>
    /\ UNCHANGED <<hotels, customers, reservations, seed>>

NextStore ==
    \/ StoreSave
    \/ StoreLoad
    \/ StoreCreateHotel
    \/ StoreGetHotel
    \/ LoadAndSaveReservations

SpecStore == InitStore /\ [][NextStore]_vars

(***************************************************************************)
(* convertNumbers.py: the conversion functions applied to one integer.     *)
(***************************************************************************)
InitConvertFn ==
    /\ \E value \in ConvertValues : fn = [NoConversion EXCEPT !.value = value]
    /\ pc = "value"
    /\ input_paths = <<>> /\ disk = <<>> /\ idx = 0 /\ data = <<>>
    /\ stats = NoStats /\ all_sections = <<>> /\ stderr = <<>>
    /\ stdout = <<>> /\ exit_status = Running /\ results_file = <<>>
    /\ hotels = <<>> /\ customers = <<>> /\ reservations = <<>>
    /\ seed = <<>> /\ last = NoCall

CallTwosComplement ==
    /\ pc = "value"
    /\ fn' = [fn EXCEPT !.bin = twos_complement_bin(fn.value, 10),
                        !.hex = twos_complement_hex(fn.value, 10)]
    /\ pc' = "converted"
    /\ UNCHANGED <<input_paths, disk, idx, data, stats, all_sections, stderr,
                   stdout, exit_status, results_file>>
    /\ UNCHANGED <<hotels, customers, reservations, seed, last>>

CallPrepareConversionRows ==
    /\ pc = "converted"
    /\ fn' = [fn EXCEPT !.rows = prepare_conversion_rows(<<<<1, fn.value>>>>)]
    /\ pc' = "rows"
    /\ UNCHANGED <<input_paths, disk, idx, data, stats, all_sections, stderr,
                   stdout, exit_status, results_file>>
    /\ UNCHANGED <<hotels, customers, reservations, seed, last>>

NextConvertFn ==
    \/ CallTwosComplement
    \/ CallPrepareConversionRows

SpecConvertFn == InitConvertFn /\ [][NextConvertFn]_vars

(***************************************************************************)
(* convertNumbers.py: main                                                 *)
(***************************************************************************)
InitConvert ==
    /\ \/ disk = <<>>
       \/ \E k \in 0..MaxItems :
            \E f \in ConvertFilesTable[k] :
              \E r \in ConvertShorterBatches[MaxItems - k] : disk = <<f>> \o r
    /\ input_paths = [k \in 1..Len(disk) |-> k]
    /\ pc = "start"
    /\ idx = 0
    /\ data = <<>>
    /\ stats = NoStats
    /\ all_sections = <<>>
    /\ stderr = <<>>
    /\ stdout = <<>>
    /\ exit_status = Running
    /\ results_file = <<>>
    /\ fn = NoFn
    /\ hotels = <<>> /\ customers = <<>> /\ reservations = <<>>
    /\ seed = <<>> /\ last = NoCall

\* len(sys.argv) < 2: usage message, sys.exit(2)
ConvertMainUsage ==
    /\ pc = "start"
    /\ Len(input_paths) = 0
    /\ stderr' = Append(stderr, Usage)
    /\ exit_status' = 2
    /\ pc' = "exited"
    /\ UNCHANGED <<input_paths, disk, idx, data, stats, all_sections, stdout,
                   results_file, fn>>
    /\ UNCHANGED <<hotels, customers, reservations, seed, last>>

ConvertMainStart ==
    /\ pc = "start"
    /\ Len(input_paths) >= 1
    /\ all_sections' = <<>>
    /\ idx' = 0
    /\ pc' = "loop"
    /\ UNCHANGED <<input_paths, disk, data, stats, stderr, stdout,
                   exit_status, results_file, fn>>
    /\ UNCHANGED <<hotels, customers, reservations, seed, last>>

\* parse_integers_from_file: FileNotFoundError, message, sys.exit(1)
ConvertFileNotFound ==
    /\ pc = "loop"
    /\ idx < Len(input_paths)
    /\ disk[At(input_paths, idx)] = Missing
    /\ stderr' = Append(stderr, FileNotFound(At(input_paths, idx)))
    /\ exit_status' = 1
    /\ pc' = "exited"
    /\ UNCHANGED <<input_paths, disk, idx, data, stats, all_sections, stdout,
                   results_file, fn>>
    /\ UNCHANGED <<hotels, customers, reservations, seed, last>>

\* parse_integers_from_file: any other OSError, message, sys.exit(1)
ConvertOSError ==
    /\ pc = "loop"
    /\ idx < Len(input_paths)
    /\ disk[At(input_paths, idx)] = Unreadable
    /\ stderr' = Append(stderr, CannotRead(At(input_paths, idx)))
    /\ exit_status' = 1
    /\ pc' = "exited"
    /\ UNCHANGED <<input_paths, disk, idx, data, stats, all_sections, stdout,
                   results_file, fn>>
    /\ UNCHANGED <<hotels, customers, reservations, seed, last>>

\* parse_integers_from_file returns the items of a readable file
ConvertParseOk ==
    /\ pc = "loop"
    /\ idx < Len(input_paths)
    /\ disk[At(input_paths, idx)][1] = "text"
    /\ LET r == parse_integers_from_file(disk[At(input_paths, idx)][2])
       IN  /\ data' = r.items
           /\ stderr' = stderr \o r.err
    /\ pc' = "parsed"
    /\ UNCHANGED <<input_paths, disk, idx, stats, all_sections, stdout,
                   exit_status, results_file, fn>>
    /\ UNCHANGED <<hotels, customers, reservations, seed, last>>

\* len(line_value_pairs) == 0: the section without a table
ConvertEmptySection ==
    /\ pc = "parsed"
    /\ Len(data) = 0
    /\ \E elapsed \in ElapsedTimes :
         LET section == EmptySection(elapsed, At(input_paths, idx))
         IN  /\ stdout' = Append(stdout, section)
             /\ all_sections' = Append(all_sections, section)
    /\ idx' = idx + 1
    /\ pc' = "loop"
    /\ UNCHANGED <<input_paths, disk, data, stats, stderr, exit_status,
                   results_file, fn>>
    /\ UNCHANGED <<hotels, customers, reservations, seed, last>>

\* the rest of the loop body: rows, section, print
ConvertBuildSection ==
    /\ pc = "parsed"
    /\ Len(data) # 0
    /\ \E elapsed \in ElapsedTimes :
         LET section == build_aligned_table(prepare_conversion_rows(data),
                                            elapsed, At(input_paths, idx))
         IN  /\ stdout' = Append(stdout, section)
             /\ all_sections' = Append(all_sections, section)
    /\ idx' = idx + 1
    /\ pc' = "loop"
    /\ UNCHANGED <<input_paths, disk, data, stats, stderr, exit_status,
                   results_file, fn>>
    /\ UNCHANGED <<hotels, customers, reservations, seed, last>>

\* after the loop: no section -> error and sys.exit(1); otherwise
\* write_results, which reports an OSError and returns
ConvertFinish ==
    /\ pc = "loop"
    /\ idx >= Len(input_paths)
    /\ IF Len(all_sections) = 0
       THEN /\ stderr' = Append(stderr, NoValidInputs)
            /\ exit_status' = 1
            /\ UNCHANGED results_file
       ELSE /\ \E ok \in BOOLEAN :
                 IF ok
                 THEN /\ results_file' =
                           Append(results_file, CombinedReport(all_sections))
                      /\ UNCHANGED stderr
                 ELSE /\ stderr' = Append(stderr, CouldNotWrite)
                      /\ UNCHANGED results_file
            /\ exit_status' = 0
    /\ pc' = "exited"
    /\ UNCHANGED <<input_paths, disk, idx, data, stats, all_sections, stdout,
                   fn>>
    /\ UNCHANGED <<hotels, customers, reservations, seed, last>>

NextConvert ==
    \/ ConvertMainUsage
    \/ ConvertMainStart
    \/ ConvertFileNotFound
    \/ ConvertOSError
    \/ ConvertParseOk
    \/ ConvertEmptySection
    \/ ConvertBuildSection
    \/ ConvertFinish

SpecConvert == InitConvert /\ [][NextConvert]_vars

(***************************************************************************)
(* Properties.                                                             *)
(***************************************************************************)
Occurrences(s, v) == Cardinality({k \in 1..Len(s) : s[k] = v})
Exited == pc = "exited"
IsText(k) == disk[k][1] = "text"
\* the sections of the report the run printed
Printed == IF Len(stdout) = 0 THEN <<>> ELSE stdout[Len(stdout)].sections

\* C1: when one input file of a batch of several is missing or unreadable,
\* the run still goes through the remaining files, and the combined report
\* it prints has a section for every readable file of the batch.
C1_BatchContinues ==
    (/\ Exited
     /\ Len(input_paths) >= 2
     /\ \E k \in 1..Len(input_paths) : ~IsText(input_paths[k]))
    => \A k \in 1..Len(input_paths) :
         IsText(input_paths[k])
         => \E j \in 1..Len(Printed) : Printed[j].title = input_paths[k]

\* the tokens of a text, read off the text itself: a token starts at a
\* non-blank character that follows a blank or nothing, and runs up to the
\* next blank; its line is one more than the newlines before it
TokenStarts(text) ==
    {p \in 1..Len(text) :
        text[p] \notin Whitespace /\ (p = 1 \/ text[p - 1] \in Whitespace)}
TokenEnd(text, p) ==
    CHOOSE q \in p..Len(text) :
        /\ \A r \in p..q : text[r] \notin Whitespace
        /\ q = Len(text) \/ text[q + 1] \in Whitespace
KthStart(text, k) ==
    CHOOSE p \in TokenStarts(text) :
        Cardinality({q \in TokenStarts(text) : q < p}) = k - 1
LineOf(text, p) == 1 + Cardinality({q \in 1..(p - 1) : text[q] = "\n"})
\* <<line number, token>> for every token, in order
TokensOf(text) ==
    [k \in 1..Cardinality(TokenStarts(text)) |->
        LET p == KthStart(text, k)
        IN  <<LineOf(text, p), SubSeq(text, p, TokenEnd(text, p))>>]
IsNumeric(token) == float(token) # ValueError
ExpectedNumbers(text) ==
    [k \in 1..Len(TokensOf(text)) |->
        IF IsNumeric(TokensOf(text)[k][2]) THEN float(TokensOf(text)[k][2])
        ELSE Fl(0)]
ExpectedDiagnostics(text) ==
    LET Bad(e) == ~IsNumeric(e[2])
        bad == SelectSeq(TokensOf(text), Bad)
    IN  [k \in 1..Len(bad) |-> InvalidToken(bad[k][1], bad[k][2])]
\* the diagnostics of the first n files on the command line
RECURSIVE DiagnosticsUpTo(_)
DiagnosticsUpTo(n) ==
    IF n = 0 THEN <<>>
    ELSE DiagnosticsUpTo(n - 1) \o ExpectedDiagnostics(disk[input_paths[n]][2])

NonDecreasing(s) == \A k \in 1..(Len(s) - 1) : FLe(s[k], s[k + 1])
IsPermutation(s, t) ==
    /\ Len(s) = Len(t)
    /\ \A v \in Range(s) \cup Range(t) : Occurrences(s, v) = Occurrences(t, v)
HasNaN(s) == \E k \in 1..Len(s) : IsNaN(s[k])
Sorted == pc \in {"sorted", "central", "dispersion", "computed", "rendered"}

\* C3 (as stated): for every finite sequence x, merge_sort(x) is as long as
\* x, a permutation of x, non-decreasing, and merge_sort(merge_sort(x))
\* equals merge_sort(x).
C3_MergeSortAnySequence ==
    Sorted
    => /\ Len(fn.sorted) = Len(data)
       /\ IsPermutation(fn.sorted, data)
       /\ NonDecreasing(fn.sorted)
       /\ fn.resorted = fn.sorted

\* C3 (amended): for every finite sequence x, merge_sort(x) is as long as x
\* and a permutation of x; when x holds no NaN, merge_sort(x) is also
\* non-decreasing and merge_sort(merge_sort(x)) equals merge_sort(x).
C3_MergeSort ==
    Sorted
    => /\ Len(fn.sorted) = Len(data)
       /\ IsPermutation(fn.sorted, data)
       /\ ~HasNaN(data)
          => (NonDecreasing(fn.sorted) /\ fn.resorted = fn.sorted)

C3_Witness ==
    /\ Sorted
    /\ Len(data) >= 3
    /\ ~HasNaN(data)
    /\ FLt(data[3], data[2]) /\ FLt(data[2], data[1])
    /\ fn.sorted # data

\* how often the value of element k occurs in the sample (a NaN equals
\* nothing, itself included: it occurs once)
Frequency(s, k) ==
    IF IsNaN(s[k]) THEN 1 ELSE Cardinality({j \in 1..Len(s) : FEq(s[j], s[k])})
MaxFrequency(s) ==
    IF Len(s) = 0 THEN 0
    ELSE CHOOSE m \in {Frequency(s, k) : k \in 1..Len(s)} :
            \A k \in 1..Len(s) : Frequency(s, k) <= m
Central == pc \in {"central", "dispersion", "computed", "rendered"}

\* C4: a non-empty result of compute_mode holds exactly the distinct sample
\* values whose frequency is the maximum frequency, each once, ascending.
C4_ModesAreTheMostFrequent ==
    (Central /\ Len(fn.modes) > 0)
    => /\ Range(fn.modes) =
            {data[k] : k \in {j \in 1..Len(data) :
                                Frequency(data, j) = MaxFrequency(data)}}
       /\ \A k \in 1..(Len(fn.modes) - 1) : FLt(fn.modes[k], fn.modes[k + 1])

C4_Witness ==
    /\ Central
    /\ Len(fn.modes) = 2
    /\ Len(data) >= 4
    /\ FLt(data[3], data[1])
    /\ fn.modes = <<data[3], data[1]>>

\* C5 (as stated): the modes are empty if and only if the maximum frequency
\* is 1.
C5_EmptyIffMaxFrequencyIsOne ==
    Central => (Len(fn.modes) = 0 <=> MaxFrequency(data) = 1)

\* C5 (amended): the modes are empty if and only if the maximum frequency is
\* at most 1, that is, no value repeats; the empty sample has an empty
\* frequency table, maximum 0, and no modes.
C5_EmptyIffNoValueRepeats ==
    Central => (Len(fn.modes) = 0 <=> MaxFrequency(data) <= 1)

C5_Witness ==
    /\ Central
    /\ Len(data) >= 2
    /\ MaxFrequency(data) = 1
    /\ Len(fn.modes) = 0

\* C6: the median of a non-empty sorted sample of length n is its middle
\* element (the (n+1)/2-th) when n is odd and the average of its two middle
\* elements (the n/2-th and the next) when n is even; the median of the
\* empty sample is None.
C6_Median ==
    Central
    => LET n == Len(fn.sorted)
       IN  /\ n = 0 => fn.median = None
           /\ (n > 0 /\ n % 2 = 1) => fn.median = fn.sorted[(n + 1) \div 2]
           /\ (n > 0 /\ n % 2 = 0)
              => fn.median = FDiv(FAdd(fn.sorted[n \div 2],
                                       fn.sorted[n \div 2 + 1]), FromInt(2))

C6_Witness ==
    /\ Central
    /\ Len(data) = 4
    /\ NonDecreasing(fn.sorted)
    /\ FLt(fn.sorted[2], fn.sorted[3])
    /\ FLt(fn.sorted[2], fn.median) /\ FLt(fn.median, fn.sorted[3])

Dispersed == pc \in {"dispersion", "computed", "rendered"}

\* C7: mean, median and population variance are None exactly when the
\* sample is empty, the sample variance is None exactly when the sample has
\* fewer than 2 values, and sqrt_newton of None is None.
C7_UndefinedMarkers ==
    Dispersed
    => /\ IsNone(fn.mean) <=> Len(data) = 0
       /\ IsNone(fn.median) <=> Len(data) = 0
       /\ IsNone(fn.var_pop) <=> Len(data) = 0
       /\ IsNone(fn.var_sam) <=> Len(data) < 2
       /\ fn.sqrt_none = None
       /\ IsNone(fn.var_pop) => IsNone(fn.std_pop)
       /\ IsNone(fn.var_sam) => IsNone(fn.std_sam)

C7_Witness ==
    /\ Dispersed
    /\ Len(data) = 1
    /\ IsNone(fn.var_sam) /\ IsNone(fn.std_sam)
    /\ ~IsNone(fn.mean) /\ ~IsNone(fn.var_pop)

Computed == pc \in {"computed", "rendered"}

\* C8: compute_all_statistics returns the sample length as count, which is
\* also the length of the sorted sample, and never a partial result: with
\* count >= 1 mean, median, population variance and population standard
\* deviation are all defined, and sample variance and sample standard
\* deviation are defined exactly when count >= 2.
C8_CompleteStatistics ==
    Computed
    => /\ stats.count = Len(data)
       /\ stats.count = Len(fn.sorted)
       /\ stats.count >= 1
          => (/\ ~IsNone(stats.mean) /\ ~IsNone(stats.median)
              /\ ~IsNone(stats.var_pop) /\ ~IsNone(stats.std_pop))
       /\ ~IsNone(stats.var_sam) <=> stats.count >= 2
       /\ ~IsNone(stats.std_sam) <=> stats.count >= 2

C8_Witness ==
    /\ Computed
    /\ stats.count = 1
    /\ ~IsNone(stats.std_pop)
    /\ IsNone(stats.std_sam)

\* the rows of a report section whose statistics are all undefined
EmptySampleRows ==
    << <<"Count", <<"0">>>>, <<"Mean", NA>>, <<"Median", NA>>,
       <<"Mode", HashNA>>, <<"Population Std Dev", NA>>,
       <<"Population Variance", NA>>, <<"Sample Std Dev", NA>>,
       <<"Sample Variance", NA>> >>
HasNoToken(text) == \A p \in 1..Len(text) : text[p] \in Whitespace

\* C9: a readable input file without any token still gets a full section:
\* all nine rows, Count 0, and the not-applicable marker for mean, median,
\* mode (#N/A), both variances and both standard deviations (N/A).
C9_EmptySampleSection ==
    \A j \in 1..Len(all_sections) :
        HasNoToken(disk[all_sections[j].title][2])
        => /\ Len(all_sections[j].lines) = 9
           /\ SubSeq(all_sections[j].lines, 1, 8) = EmptySampleRows
           /\ all_sections[j].lines[9][1] = "Elapsed Time (seconds)"

C9_Witness ==
    /\ Exited
    /\ exit_status = 0
    /\ Len(results_file) = 1
    /\ \E j \in 1..Len(results_file[1].sections) :
         /\ HasNoToken(disk[j][2]) /\ Len(disk[j][2]) > 0
         /\ SubSeq(results_file[1].sections[j].lines, 1, 8) = EmptySampleRows

\* C10: main ends with a non-zero exit status and writes no results file
\* when no input file argument is given and when no file of the batch
\* produced a report section.
C10_WholeRunFailure ==
    (Exited /\ (Len(input_paths) = 0 \/ Len(all_sections) = 0))
    => /\ exit_status \notin {0, Running}
       /\ Len(results_file) = 0
       /\ Len(stdout) = 0

C10_Witness ==
    /\ Exited
    /\ Len(input_paths) = 2
    /\ Len(all_sections) = 0
    /\ exit_status = 1
    /\ Len(results_file) = 0

IsInvalidToken(line) == line[1] = "ERROR Invalid token"
\* how many files of the command line have been read so far
FilesRead == IF pc = "parsed" THEN idx + 1 ELSE idx
Titles(sections) == [j \in 1..Len(sections) |-> sections[j].title]

\* C11: the input files are processed one at a time in command-line order:
\* at every moment the invalid-token diagnostics on stderr are those of the
\* files read so far, file after file; the sections built so far are those
\* of the first files of the command line, in that order; and the results
\* file is written at most once, after the last file, with these sections.
C11_ArgumentOrder ==
    /\ FilesRead <= Len(input_paths)
    /\ SelectSeq(stderr, IsInvalidToken) = DiagnosticsUpTo(FilesRead)
    /\ Titles(all_sections) = SubSeq(input_paths, 1, Len(all_sections))
    /\ Len(all_sections) = idx
    /\ Len(stdout) > 0 => Titles(Printed) = input_paths
    /\ Len(results_file) <= 1
    /\ Len(results_file) = 1
       => /\ Exited
          /\ idx = Len(input_paths)
          /\ Titles(results_file[1].sections) = input_paths

C11_Witness ==
    /\ Exited
    /\ disk = <<TextFile(<<"x">>), TextFile(<<"\n", "x">>)>>
    /\ stderr = <<InvalidToken(1, <<"x">>), InvalidToken(2, <<"x">>)>>
    /\ Len(results_file) = 1
    /\ Titles(results_file[1].sections) = <<1, 2>>

NewtonStep(value, x) == FMul(Half, FAdd(x, FDiv(value, x)))
RECURSIVE Iterate(_, _, _)
Iterate(value, x, n) ==
    IF IsNone(x) \/ n = 0 THEN x
    ELSE IF n = 1 THEN NewtonStep(value, x)
    ELSE Iterate(value, Iterate(value, x, n \div 2), n - n \div 2)
\* consecutive iterates within the tolerance
Close(prev, x) ==
    FLe(FAbs(FSub(x, prev)), FMul(tol, FMax(FromInt(1), FAbs(prev))))

\* C13: sqrt_newton returns 0 without iterating for 0, the undefined marker
\* without iterating for a negative or undefined input, and for a positive
\* input the iterate of x <- 0.5 * (x + value / x) from x = value at the
\* first step, of at most 100, where consecutive iterates are within the
\* tolerance of each other (the 100th iterate when there is no such step).
C13_SqrtNewton ==
    pc = "sqrt"
    => LET value == fn.sqrt_value
           passes == fn.sqrt_passes
       IN  /\ FEq(value, Fl(0))
              => fn.sqrt_result = Fl(0) /\ passes = 0
           /\ (IsNone(value) \/ FLt(value, Fl(0)))
              => IsNone(fn.sqrt_result) /\ passes = 0
           /\ FLt(Fl(0), value)
              => /\ passes \in 1..max_iter
                 /\ fn.sqrt_result = Iterate(value, value, passes)
                 /\ \A j \in 1..(passes - 1) :
                      ~Close(Iterate(value, value, j - 1),
                             Iterate(value, value, j))
                 /\ passes < max_iter
                    => Close(Iterate(value, value, passes - 1),
                             Iterate(value, value, passes))

\* a positive input that converges early, and one that does not
C13_Witness ==
    /\ pc = "sqrt"
    /\ fn.sqrt_value = FromInt(2)
    /\ fn.sqrt_passes \in 2..(max_iter - 1)
    /\ IsNum(fn.sqrt_result)

\* the call that has just returned or raised
Returned(op) == pc = "returned" /\ last.op = op
RaisesValueError(call) == call.raised[1] = "ValueError"
StoreUnchanged ==
    hotels' = hotels /\ customers' = customers /\ reservations' = reservations
Stored(rows, id) == \E k \in 1..Len(rows) : rows[k].id = id
RoomTaken(rows, hotel_id, room_number) ==
    \E k \in 1..Len(rows) :
        rows[k].hotel_id = hotel_id /\ rows[k].room_number = room_number
NoSharedRoom(rows) ==
    \A j, k \in 1..Len(rows) :
        (rows[j].hotel_id = rows[k].hotel_id
         /\ rows[j].room_number = rows[k].room_number) => j = k
UniqueIds(rows) == \A j, k \in 1..Len(rows) : rows[j].id = rows[k].id => j = k

\* C14: from a store without reservations no call of the service leaves two
\* stored reservations with the same hotel and room number; and
\* create_reservation for a hotel room that a stored reservation already
\* holds raises ValueError and saves nothing.
C14_NoDoubleBooking ==
    [][/\ seed = <<>> => NoSharedRoom(reservations')
       /\ (/\ last'.op = "create_reservation"
           /\ RoomTaken(reservations, last'.hotel_id, last'.room_number))
          => /\ RaisesValueError(last')
             /\ last'.saved = <<>>
             /\ StoreUnchanged]_vars

C14_Witness ==
    /\ Returned("create_reservation")
    /\ last.raised = ValueErr("Room already taken")
    /\ last.id = "R2"
    /\ RoomTaken(reservations, last.hotel_id, last.room_number)
    /\ last.saved = <<>>
    /\ reservations = seed

\* C15: create_reservation with a stored hotel, a stored customer, a room
\* number of that hotel, an id no reservation has and a room no reservation
\* holds returns the id and saves the reservations once: the records there
\* were, then the new record with status "active".
C15_CreateReservationSaves ==
    [][(/\ last'.op = "create_reservation"
        /\ \E k \in 1..Len(hotels) :
             /\ hotels[k].id = last'.hotel_id
             /\ last'.room_number \in 1..hotels[k].rooms
        /\ Stored(customers, last'.customer_id)
        /\ ~Stored(reservations, last'.id)
        /\ ~RoomTaken(reservations, last'.hotel_id, last'.room_number))
       => /\ last'.raised = NoException
          /\ last'.value = last'.id
          /\ last'.saved = <<RESERVATIONS>>
          /\ reservations' =
               Append(reservations,
                      [id |-> last'.id, hotel_id |-> last'.hotel_id,
                       customer_id |-> last'.customer_id,
                       room_number |-> last'.room_number,
                       status |-> "active"])]_vars

\* C16: cancel_reservation of a stored id saves the reservations once, the
\* record in its place with status "cancelled" and nothing else changed; of
\* an id not stored it raises ValueError and saves nothing.
C16_CancelReservation ==
    [][last'.op = "cancel_reservation"
       => IF Stored(reservations, last'.id)
          THEN /\ last'.raised = NoException
               /\ last'.saved = <<RESERVATIONS>>
               /\ Len(reservations') = Len(reservations)
               /\ \A k \in 1..Len(reservations) :
                    reservations'[k] =
                      IF reservations[k].id = last'.id
                      THEN [id |-> reservations[k].id,
                            hotel_id |-> reservations[k].hotel_id,
                            customer_id |-> reservations[k].customer_id,
                            room_number |-> reservations[k].room_number,
                            status |-> "cancelled"]
                      ELSE reservations[k]
          ELSE /\ RaisesValueError(last')
               /\ last'.saved = <<>>
               /\ StoreUnchanged]_vars

\* C17: create_reservation raises ValueError and stores no reservation when
\* the hotel id is not stored, when the customer id is not stored, and when
\* the room number is below 1 or above the rooms of the hotel.
C17_CreateReservationRejects ==
    [][(/\ last'.op = "create_reservation"
        /\ \/ ~Stored(hotels, last'.hotel_id)
           \/ ~Stored(customers, last'.customer_id)
           \/ last'.room_number < 1
           \/ \E k \in 1..Len(hotels) :
                /\ hotels[k].id = last'.hotel_id
                /\ last'.room_number > hotels[k].rooms)
       => /\ RaisesValueError(last')
          /\ last'.saved = <<>>
          /\ reservations' = reservations]_vars

C17_Witness ==
    /\ Returned("create_reservation")
    /\ last.raised = ValueErr("Invalid room number")
    /\ \E k \in 1..Len(hotels) :
         hotels[k].id = last.hotel_id /\ last.room_number = hotels[k].rooms + 1
    /\ Stored(customers, last.customer_id)
    /\ last.saved = <<>>

\* C18: from empty collections every call leaves the ids of each collection
\* unique; and a create with an id its collection already holds raises
\* ValueError and saves nothing.
C18_UniqueIds ==
    [][/\ seed = <<>>
          => /\ UniqueIds(hotels')
             /\ UniqueIds(customers')
             /\ UniqueIds(reservations')
       /\ (\/ last'.op = "create_hotel" /\ Stored(hotels, last'.id)
           \/ last'.op = "create_customer" /\ Stored(customers, last'.id)
           \/ last'.op = "create_reservation"
              /\ Stored(reservations, last'.id))
          => /\ RaisesValueError(last')
             /\ last'.saved = <<>>
             /\ StoreUnchanged]_vars

C18_Witness ==
    /\ Returned("create_hotel")
    /\ last.raised = ValueErr("Hotel already exists")
    /\ seed = <<>>
    /\ Len(hotels) = 2
    /\ Len(customers) = 2
    /\ Stored(hotels, last.id)
    /\ last.saved = <<>>

\* C19: a call that raises ValueError has saved nothing: the three
\* collections are what they were before the call.
C19_ValueErrorSavesNothing ==
    [][RaisesValueError(last') => last'.saved = <<>> /\ StoreUnchanged]_vars

C19_Witness ==
    /\ Returned("update_hotel")
    /\ last.raised = ValueErr("Invalid rooms value")
    /\ "rooms" \in last.fields
    /\ Stored(hotels, last.id)
    /\ last.saved = <<>>

\* the record that replaces rec when the fields passed take the values of
\* the call and the others stay
Patched(rec, call, keys) ==
    [key \in DOMAIN rec |->
        IF key \in call.fields \cap keys THEN call[key] ELSE rec[key]]

\* C20: an update_hotel or update_customer that returns has replaced, in the
\* record with the id, the fields passed (name, rooms; name, email) and
\* nothing else: id and place in the list stay, every other record stays,
\* and the one save is of that collection.
C20_UpdateFrame ==
    [][/\ (last'.op = "update_hotel" /\ last'.raised = NoException)
          => /\ last'.saved = <<HOTELS>>
             /\ Stored(hotels, last'.id)
             /\ hotels' = [k \in 1..Len(hotels) |->
                              IF hotels[k].id = last'.id
                              THEN Patched(hotels[k], last', {"name", "rooms"})
                              ELSE hotels[k]]
             /\ customers' = customers /\ reservations' = reservations
       /\ (last'.op = "update_customer" /\ last'.raised = NoException)
          => /\ last'.saved = <<CUSTOMERS>>
             /\ Stored(customers, last'.id)
             /\ customers' = [k \in 1..Len(customers) |->
                                 IF customers[k].id = last'.id
                                 THEN Patched(customers[k], last',
                                              {"name", "email"})
                                 ELSE customers[k]]
             /\ hotels' = hotels /\ reservations' = reservations]_vars

C20_Witness ==
    /\ Returned("update_customer")
    /\ last.raised = NoException
    /\ last.fields = {"email"}
    /\ last.id = "C2"
    /\ customers = <<Customer("C1", "A", <<"a", "@", "b">>),
                     Customer("C2", "A", <<"a", "b">>)>>
    /\ last.saved = <<CUSTOMERS>>

\* rows without its k-th record
Without(rows, k) == SubSeq(rows, 1, k - 1) \o SubSeq(rows, k + 1, Len(rows))

\* C21: delete_hotel and delete_customer of a stored id save their
\* collection once, without that record and with the other records in the
\* order they had; of an id not stored they raise ValueError and save
\* nothing.
C21_Delete ==
    [][/\ last'.op = "delete_hotel"
          => IF Stored(hotels, last'.id)
             THEN /\ last'.raised = NoException
                  /\ last'.saved = <<HOTELS>>
                  /\ \E k \in 1..Len(hotels) :
                       hotels[k].id = last'.id /\ hotels' = Without(hotels, k)
                  /\ ~Stored(hotels', last'.id)
                  /\ customers' = customers /\ reservations' = reservations
             ELSE /\ RaisesValueError(last')
                  /\ last'.saved = <<>>
                  /\ StoreUnchanged
       /\ last'.op = "delete_customer"
          => IF Stored(customers, last'.id)
             THEN /\ last'.raised = NoException
                  /\ last'.saved = <<CUSTOMERS>>
                  /\ \E k \in 1..Len(customers) :
                       /\ customers[k].id = last'.id
                       /\ customers' = Without(customers, k)
                  /\ ~Stored(customers', last'.id)
                  /\ hotels' = hotels /\ reservations' = reservations
             ELSE /\ RaisesValueError(last')
                  /\ last'.saved = <<>>
                  /\ StoreUnchanged]_vars

C21_Witness ==
    /\ Returned("delete_hotel")
    /\ last.raised = NoException
    /\ last.id = "H2"
    /\ last.saved = <<HOTELS>>
    /\ Len(hotels) = 1
    /\ hotels[1].id = "H1"

\* C24: every stored customer has a name that is not empty and an email
\* with an "@" in it, whatever create_customer and update_customer calls
\* were made on the customers collection, which starts empty.
C24_CustomersValid ==
    \A k \in 1..Len(customers) :
        customers[k].name # "" /\ "@" \in Range(customers[k].email)

IsCancelled(row) == "status" \in DOMAIN row /\ row.status = "cancelled"

\* C27: no call takes a reservation out of the collection, so the number of
\* stored reservations never goes down; and the checks of create_reservation
\* do not look at the status: while a cancelled reservation is stored,
\* create_reservation for its hotel room, and create_reservation with its
\* id, raise ValueError and save nothing.
C27_CancelledStillCounts ==
    [][/\ Len(reservations') >= Len(reservations)
       /\ \A k \in 1..Len(reservations) :
            reservations'[k].id = reservations[k].id
       /\ \A k \in 1..Len(reservations) :
            (/\ IsCancelled(reservations[k])
             /\ last'.op = "create_reservation"
             /\ \/ /\ last'.hotel_id = reservations[k].hotel_id
                   /\ last'.room_number = reservations[k].room_number
                \/ last'.id = reservations[k].id)
            => /\ RaisesValueError(last')
               /\ last'.saved = <<>>
               /\ reservations' = reservations]_vars

C27_Witness ==
    /\ Returned("create_reservation")
    /\ last.raised = ValueErr("Room already taken")
    /\ last.saved = <<>>
    /\ \E k \in 1..Len(reservations) :
         /\ IsCancelled(reservations[k])
         /\ reservations[k].hotel_id = last.hotel_id
         /\ reservations[k].room_number = last.room_number
         /\ reservations[k].id # last.id

\* Starting from an empty reservations collection no call stores a
\* reservation: create_reservation, the only operation that adds one, ends
\* in the TypeError of C15 before its save.
ReservationsStayEmpty == seed = <<>> => reservations = <<>>

\* C22: a save of rows to a collection file makes load of that file return
\* rows, whatever the file held before, and leaves what load returns for
\* every other collection file as it was; a load that follows a save of the
\* same file returns the rows saved.
C22_SaveThenLoad ==
    [][/\ last'.op = "save" =>
            /\ JsonStore_load(disk', last'.name).raised = NoException
            /\ JsonStore_load(disk', last'.name).rows = last'.rows
            /\ \A other \in Collections \ {last'.name} :
                 JsonStore_load(disk', other) = JsonStore_load(disk, other)
       /\ (last.op = "save" /\ last'.op = "load" /\ last'.name = last.name) =>
            /\ last'.raised = NoException
            /\ last'.rows = last.rows]_vars

\* a save of two rows over a file that held other rows
C22_Witness ==
    /\ last.op = "save"
    /\ Len(last.rows) = 2
    /\ last.before[1] = "text"
    /\ json_loads(last.before[2]).ok
    /\ Len(json_loads(last.before[2]).value) = 1
    /\ JsonStore_load(disk, last.name).rows = last.rows
    /\ \E other \in Collections : JsonStore_load(disk, other).printed # <<>>

\* the file is not there, or its text is no JSON
IsBroken(file) == file[1] = "missing" \/ ~json_loads(file[2]).ok

\* C23: load of a collection file that is missing or holds invalid JSON
\* returns the empty list and raises nothing; create_hotel with valid
\* arguments on a store whose hotels file is broken returns, and get_hotel
\* then returns the hotel created.
C23_LoadOfBrokenFile ==
    [][/\ (last'.op = "load" /\ IsBroken(disk[last'.name])) =>
            last'.rows = <<>> /\ last'.raised = NoException
       /\ (last'.op = "create_hotel" /\ IsBroken(disk[HOTELS])
           /\ last'.id # "") =>
            /\ last'.raised = NoException
            /\ get_hotel(load_hotels(JsonStore_load(disk', HOTELS).rows),
                         last'.id) = <<Hotel(last'.id, "A", 1)>>
       /\ (last.op = "create_hotel" /\ last.raised = NoException
           /\ last'.op = "get_hotel" /\ last'.id = last.id) =>
            /\ last'.raised = NoException
            /\ last'.value = <<Hotel(last.id, "A", 1)>>]_vars

\* create_hotel has returned on a store whose hotels file held text that is
\* no JSON, and the hotel is found in the store
C23_Witness ==
    /\ last.op = "create_hotel"
    /\ last.before[1] = "text"
    /\ ~json_loads(last.before[2]).ok
    /\ last.printed = <<InvalidJSON(HOTELS), ContinuingEmpty>>
    /\ last.raised = NoException
    /\ get_hotel(load_hotels(JsonStore_load(disk, HOTELS).rows), last.id)
         = <<Hotel(last.id, "A", 1)>>

\* C28: a load-and-save of the reservations collection keeps the status of
\* every stored reservation: a row stored with a status is stored with the
\* same status afterwards.
C28_StatusSurvives ==
    [][last'.op = "load_and_save" =>
         LET before == JsonStore_load(disk, RESERVATIONS).rows
             after == JsonStore_load(disk', RESERVATIONS).rows
         IN  \A k \in 1..Len(before) :
               "status" \in DOMAIN before[k] =>
                 /\ k <= Len(after)
                 /\ "status" \in DOMAIN after[k]
                 /\ after[k].status = before[k].status]_vars

\* the number a string of base-b digits stands for
RECURSIVE ValueLoop(_, _, _, _)
ValueLoop(str, base, k, acc) ==
    IF IntIsNeg(acc) \/ k > Len(str) THEN acc
    ELSE ValueLoop(str, base, k + 1,
                   IntAddSmall(IntMulSmall(acc, base),
                               (CHOOSE d \in 1..16 : digits_map[d] = str[k])
                               - 1))
ValueOf(str, base) == ValueLoop(str, base, 1, IntOf(0))
DigitsOf(base) == {digits_map[d] : d \in 1..base}
Unpadded(str) == Len(str) >= 1 /\ (str[1] = "0" => Len(str) = 1)
ConversionHolds(value, bin, hex) ==
    IF IntIsNeg(value)
    THEN /\ Len(bin) = 10 /\ Range(bin) \subseteq DigitsOf(2)
         /\ ValueOf(bin, 2)[2] = 0
         /\ ValueOf(bin, 2)[3] < 2 ^ 10
         /\ (ValueOf(bin, 2)[3] - value[3]) % (2 ^ 10) = 0
         /\ Len(hex) = 10 /\ Range(hex) \subseteq DigitsOf(16)
         /\ ValueOf(hex, 16)[2] \in 0..(Limb - 1)
         /\ ValueOf(hex, 16)[3] = value[3]
         /\ (ValueOf(hex, 16)[2] - value[2]) % Limb = 0
    ELSE /\ Unpadded(bin) /\ Range(bin) \subseteq DigitsOf(2)
         /\ ValueOf(bin, 2) = value
         /\ Unpadded(hex) /\ Range(hex) \subseteq DigitsOf(16)
         /\ ValueOf(hex, 16) = value

\* C29: for a negative integer the binary string has exactly 10 binary
\* digits and stands for the value modulo 2^10, and the hex string has
\* exactly 10 hex digits and stands for the value modulo 16^10 (= Limb *
\* Limb); for a non-negative integer both strings are the digits of the
\* value without padding.  This holds for the strings of
\* twos_complement_bin / twos_complement_hex and for the row prepare_rows
\* emits.
C29_FixedWidthTwosComplement ==
    /\ pc \in {"converted", "rows"} =>
         ConversionHolds(fn.value, fn.bin, fn.hex)
    /\ pc = "rows" =>
         /\ Len(fn.rows) = 1
         /\ ConversionHolds(fn.value, fn.rows[1][3], fn.rows[1][4])

\* -1025 is below -2^10: its ten bits are those of 1023
C29_Witness ==
    /\ pc = "rows"
    /\ fn.value = IntOf(0 - 1025)
    /\ fn.rows[1][3] = [k \in 1..10 |-> "1"]
    /\ fn.rows[1][4] = <<"F", "F", "F", "F", "F", "F", "F", "B", "F", "F">>

\* [+-]?[0-9]+
IsSignedInteger(token) ==
    LET body == IF Len(token) > 0 /\ token[1] \in {"+", "-"}
                THEN Tail(token) ELSE token
    IN  Len(body) > 0 /\ Range(body) \subseteq Digits
ValidTokenCount(text) ==
    LET tokens == TokensOf(ReplaceCommas(text))
    IN  Cardinality({k \in 1..Len(tokens) : IsSignedInteger(tokens[k][2])})

\* C30: parse_integers_from_file returns only pairs of a line number and an
\* integer, and the total of every section of the report is the number of
\* valid signed-integer tokens of its file.
C30_TotalValidItems ==
    /\ pc = "parsed" => \A k \in 1..Len(data) : IsInt(data[k][2])
    /\ \A j \in 1..Len(all_sections) :
         all_sections[j].total = ValidTokenCount(disk[input_paths[j]][2])

====
